---- MODULE Spec2Model ----
(***************************************************************************)
(* Model of MininetSmartCampusExperiment                                   *)
(* (src/mininet_smart_campus_experiment.py): one trial after another of    *)
(* setup_topology, run_experiment (network start, convergence loop,        *)
(* traffic generators, setup_seismic_test, fault schedule) and             *)
(* teardown_experiment.  The driver is a single sequential thread; pc is   *)
(* its position.  The SDN controller, the child processes and the          *)
(* per-trial plan are the environment: their answers are drawn when the    *)
(* driver reads them.                                                      *)
(***************************************************************************)
EXTENDS Integers, Sequences, FiniteSets, TLC

----------------------------------------------------------------------------
\* Bounds of the model.

\* largest number of cloud gateways in the topology file
MaxGateways == 2
\* largest number of convergence-loop iterations explored
MaxTries == 5
\* largest n_traffic_generators
MaxGenerators == 2
\* largest ntrees
MaxTrees == 2

\* longest name handed to make_scale_config_entry, in characters
MaxNameLen == 2

\* longest PYTHONPATH of the caller, in directories and colons
MaxPathLen == 4

\* most groups, and most flow rules, of a multicast tree sdn_cli installs
MaxCliRules == 2

----------------------------------------------------------------------------
\* Constants the driver imports with "from config import *".  config.py is
\* not among the sources at hand: the times stand for any positive number of
\* seconds, the ports for any port numbers.

TIME_BETWEEN_SEISMIC_EVENTS == 2
SEISMIC_EVENT_DELAY == 1
EXPERIMENT_DURATION == 12
STATIC_PATH_FLOW_RULE_PRIORITY == "STATIC_PATH_FLOW_RULE_PRIORITY"
\* an IPv4 address, as its four octets; the last one is 255 so that the next
\* address carries into the third octet
MULTICAST_ADDRESS_BASE == <<224, 0, 0, 255>>
MULTICAST_ALERT_BASE_SRC_PORT == 4000

----------------------------------------------------------------------------
\* The topology file (self.topo, a NetworkxSdnTopology): names follow the
\* conventions of the driver (server s0, cloud x0, gateways g<i>, hosts h<i>).

\* gateway names in ascending (lexicographic) order
GatewayNames == <<"g0", "g1", "g2", "g3">>

NameRank(n) == CHOOSE i \in 1..Len(GatewayNames) : GatewayNames[i] = n

TopoServers == <<"s0">>

TopoClouds == <<"x0">>

TopoHosts == <<"h0", "h1">>

\* the switches that are not cloud gateways
TopoBuildingSwitches == <<"b0", "a0", "a1">>

Range(s) == {s[i] : i \in DOMAIN s}

\* every sequence that lists the members of S once
Orderings(S) == {q \in [1..Cardinality(S) -> S] : Range(q) = S}

\* the links of the topology file, for the gateways gws
TopoLinks(gws) ==
    <<  <<"s0", "b0">>, <<"b0", "a0">>, <<"a0", "a1">>,
        <<"a0", "h0">>, <<"a1", "h1">> >>
    \o [i \in 1..Len(gws) |-> <<"b0", gws[i]>>]
    \o [i \in 1..Len(gws) |-> <<gws[i], "x0">>]

Neighbours(E, n) ==
    {e[2] : e \in {x \in Range(E) : x[1] = n}} \cup {e[1] : e \in {x \in Range(E) : x[2] = n}}

RECURSIVE Distance(_, _, _, _, _)
Distance(E, frontier, visited, target, d) ==
    IF target \in frontier THEN d
    ELSE IF frontier = {} THEN -1
    ELSE LET seen == visited \cup frontier
             next == UNION {Neighbours(E, n) : n \in frontier} \ seen
         IN Distance(E, next, seen, target, d + 1)

\* topo.get_path(src, dst): the shortest path, as the sequence of its names
RECURSIVE get_path(_, _, _)
get_path(E, src, dst) ==
    IF src = dst THEN <<dst>>
    ELSE LET d == Distance(E, {src}, {}, dst, 0)
             step == CHOOSE m \in Neighbours(E, src) :
                        Distance(E, {m}, {}, dst, 0) = d - 1
         IN <<src>> \o get_path(E, step, dst)

----------------------------------------------------------------------------
VARIABLES
    pc,                 \* position of the driver
    error,              \* the exception that ended the trial, or "None"
    with_cloud,         \* self.with_cloud
    topology_adapter_type, \* self.topology_adapter_type
    topo_gateways,      \* the cloud gateways, in the order topo.get_switches() lists them
    hosts, switches, cloud_gateways, cloud_switches, links, \* self.* collections
    net,                \* self.net, the emulated network
    controller, nat, server_switch, server, cloud, \* self.* nodes
    topology_adapter,   \* self.topology_adapter: the controller view last fetched
    popens, client_iperfs, server_iperfs, \* self.* process handles
    conv,               \* locals of the convergence loop
    su,                 \* locals of setup_seismic_test
    fs,                 \* locals of the fault schedule
    td,                 \* locals of teardown_experiment
    now,                \* time.time(), relative to exp_start_time
    ca,                 \* what the SDN controller holds
    result,             \* what run_experiment returned
    sc,                 \* a call of make_scale_config_entry: arguments and result
    env,                \* os.environ and the environment built for the children
    cli                 \* a run of sdn_cli: its command and the installs it called

vars == <<pc, error, with_cloud, topology_adapter_type, topo_gateways,
          hosts, switches, cloud_gateways, cloud_switches, links, net,
          controller, nat, server_switch, server, cloud, topology_adapter,
          popens, client_iperfs, server_iperfs, conv, su, fs, td, now, ca,
          result, sc, env, cli>>

config_vars == <<with_cloud, topology_adapter_type, topo_gateways>>

self_lists == <<hosts, switches, cloud_gateways, cloud_switches, links>>

self_nodes == <<controller, nat, server_switch, server, cloud>>

proc_vars == <<popens, client_iperfs, server_iperfs>>

----------------------------------------------------------------------------
\* Values of the records the variables hold.

NoNet ==
    [exists |-> FALSE, started |-> FALSE, arp |-> FALSE, hosts |-> <<>>,
     switches |-> <<>>, links |-> <<>>, down |-> {}, stopped |-> {}]

NoFs ==
    [exp_start_time |-> 0, data_path_changes |-> <<>>, output_dp_changes |-> <<>>,
     i |-> 0, quake_time |-> -1, failed_links |-> <<>>, failed_nodes |-> <<>>,
     k |-> 0, yielded |-> FALSE, quakes |-> 0]

NoTd ==
    [caller |-> "None", k |-> 0, w_i |-> 0, ret |-> <<>>, drained |-> <<>>,
     drained_as |-> <<>>, stop_error |-> FALSE, slept |-> FALSE,
     \* the reset of the controller: the seconds slept since the last poll,
     \* the calls of remove_all_flow_rules, whether remove_all_groups was called
     waited |-> 0, flow_removals |-> 0, removed_groups |-> FALSE,
     \* the last call of wait_then_kill that returned: what it returned, how
     \* many of its polls found the process running, whether it killed it
     returned |-> [ret |-> <<>>, nones |-> 0, killed |-> FALSE]]

NoResult == [returned |-> FALSE, quake_start_time |-> -1, data_path_changes |-> <<>>]

NoAdapter == [exists |-> FALSE, nhosts |-> 0, nlinks |-> 0, nswitches |-> 0]

\* no run of sdn_cli is looked at
NoCli ==
    [command |-> <<>>, path |-> <<>>, rules |-> <<>>, gflows |-> <<>>, flows |-> <<>>,
     k |-> 0, installed |-> <<>>]

\* no environment is looked at
NoEnv == [os_environ |-> <<>>, child |-> <<>>]

\* no call of make_scale_config_entry is looked at
NoCall == [class_path |-> <<>>, name |-> <<>>, kwargs |-> <<>>, out |-> <<>>]

NoConv ==
    [hosts |-> <<>>, expected_nhosts |-> 0, expected_nlinks |-> 0,
     expected_nswitches |-> 0, n_sdn_hosts |-> 0, n_sdn_links |-> 0,
     n_sdn_switches |-> 0, ntries |-> 0, success |-> FALSE, slept |-> 0,
     pinged |-> FALSE, missed |-> FALSE,
     \* the DPIDs of the nodes as they were before the adapter was built last
     dpids_before |-> <<>>]

NoBatch == [kind |-> "None", sub |-> "None", gw |-> "None", route |-> <<>>, rules |-> <<>>, ok |-> FALSE]

NoSu ==
    [subscribers |-> <<>>, comparison |-> "None", ntrees |-> 0,
     with_ride_c |-> FALSE, use_unicast |-> FALSE, i |-> 0, j |-> 0,
     data_path_args |-> <<>>, clients |-> {}, batch |-> NoBatch,
     \* the sensors, and the configurations the clients were launched with
     sensors |-> {}, launched |-> <<>>,
     mcast_address_pool |-> <<>>,
     \* the calls of install_flow_rules of the loop at hand, and whether a call
     \* of this trial returned false
     batches |-> <<>>, failed |-> FALSE,
     \* the gateways whose probe rules were handed to install_flow_rules
     probed |-> <<>>]

\* topo.get_switches(): the switches of the topology file
TopoSwitches == TopoBuildingSwitches \o topo_gateways

\* topo.topo.number_of_edges()
TopoNumberOfEdges == Len(TopoLinks(topo_gateways))

\* a sequence without the entries equal to x
RECURSIVE Without(_, _)
Without(s, x) ==
    IF s = <<>> THEN <<>>
    ELSE IF Head(s) = x THEN Without(Tail(s), x)
    ELSE <<Head(s)>> \o Without(Tail(s), x)

----------------------------------------------------------------------------
\* __init__: the collections are empty and nothing is built.

Init ==
    /\ pc = "setup_topology"
    /\ error = "None"
    /\ with_cloud \in BOOLEAN
    /\ topology_adapter_type \in {"onos", "floodlight"}
    /\ topo_gateways \in UNION {Orderings({GatewayNames[i] : i \in 1..n}) : n \in 0..MaxGateways}
    /\ hosts = <<>>
    /\ switches = <<>>
    /\ cloud_gateways = <<>>
    /\ cloud_switches = <<>>
    /\ links = <<>>
    /\ net = NoNet
    /\ controller = "None"
    /\ nat = "None"
    /\ server_switch = "None"
    /\ server = "None"
    /\ cloud = "None"
    /\ topology_adapter = NoAdapter
    /\ popens = <<>>
    /\ client_iperfs = <<>>
    /\ server_iperfs = <<>>
    /\ conv = NoConv
    /\ su = NoSu
    /\ fs = NoFs
    /\ td = NoTd
    /\ now = 0
    /\ ca = [hosts |-> FALSE, switches |-> FALSE, flows |-> FALSE, groups |-> FALSE]
    /\ result = NoResult
    /\ sc = NoCall
    /\ env = NoEnv
    /\ cli = NoCli

----------------------------------------------------------------------------
\* setup_topology

\* the hosts setup_topology adds for the clouds: the cloud host behind its edge
\* switch, or (with_cloud false) the cloud's own name, added twice
CloudHostsAdded ==
    IF with_cloud THEN <<"hx0">> ELSE <<"x0", "x0">>

SetupTopology ==
    /\ pc = "setup_topology"
    /\ net' = [exists |-> TRUE, started |-> FALSE, arp |-> FALSE,
               switches |-> TopoSwitches \o <<"s0">>
                            \o (IF with_cloud THEN <<"x0">> ELSE <<>>),
               hosts |-> TopoHosts \o <<"hs0">> \o CloudHostsAdded \o <<"nat0">>,
               links |-> << <<"s0", "hs0">> >>
                         \o (IF with_cloud THEN << <<"x0", "hx0">> >> ELSE <<>>)
                         \o TopoLinks(topo_gateways)
                         \o << <<"nat0", "hs0">> >>,
               down |-> {}, stopped |-> {}]
    /\ controller' = "c0"
    /\ switches' = switches \o TopoSwitches
    /\ cloud_gateways' = cloud_gateways \o topo_gateways
    /\ hosts' = hosts \o TopoHosts
    /\ server_switch' = "s0"
    /\ server' = "hs0"
    /\ cloud_switches' = cloud_switches \o (IF with_cloud THEN <<"x0">> ELSE <<>>)
    /\ cloud' = IF with_cloud THEN "hx0" ELSE "x0"
    /\ links' = links \o TopoLinks(topo_gateways)
    /\ nat' = "nat0"
    /\ pc' = "start_network"
    /\ UNCHANGED <<sc, env, cli, error, config_vars, topology_adapter, proc_vars, conv, su, fs,
                   td, now, ca, result>>

----------------------------------------------------------------------------
\* run_experiment: starting the network and eliciting host discovery

StartNetwork ==
    /\ pc = "start_network"
    /\ net' = [net EXCEPT !.started = TRUE]
    /\ pc' = "ping_hosts"
    /\ UNCHANGED <<sc, env, cli, error, config_vars, self_lists, self_nodes, topology_adapter,
                   proc_vars, conv, su, fs, td, now, ca, result>>

\* ping_hosts(hosts): the pings, then the static ARP entries of every host
ping_hosts(n) == [n EXCEPT !.arp = TRUE]

FirstPing ==
    /\ pc = "ping_hosts"
    /\ conv' = [NoConv EXCEPT !.hosts = Without(net.hosts, nat)]
    /\ net' = ping_hosts(net)
    /\ pc' = "expected"
    /\ UNCHANGED <<sc, env, cli, error, config_vars, self_lists, self_nodes,
                   topology_adapter, proc_vars, su, fs, td, now, ca, result>>

\* (1 if x else 0) of a node that is a Mininet object or None
OneIf(node) == IF node # "None" THEN 1 ELSE 0

ComputeExpected ==
    /\ pc = "expected"
    /\ conv' = [conv EXCEPT
                  !.expected_nhosts = Len(conv.hosts),
                  !.expected_nlinks = TopoNumberOfEdges + OneIf(server) + OneIf(cloud),
                  !.expected_nswitches = Len(TopoSwitches) + OneIf(server) + OneIf(cloud),
                  !.n_sdn_links = 0, !.n_sdn_switches = 0, !.n_sdn_hosts = 0,
                  !.ntries = 1]
    /\ pc' = "loop_test"
    /\ UNCHANGED <<sc, env, cli, error, config_vars, self_lists, self_nodes, net,
                   topology_adapter, proc_vars, su, fs, td, now, ca, result>>

----------------------------------------------------------------------------
\* Conversions between Mininet nodes and the controller's identifiers

\* the DPID setup_topology gives a switch: get_mac_for_switch of its name, the
\* server's and the cloud's edge switch under the rewritten names e<i>, f<i>
SwitchMac(name) ==
    IF name = "s0" THEN "e0" ELSE IF name = "x0" THEN "f0" ELSE name

\* an identifier taken from the view the adapter last fetched
get_host_dpid_of_view(host) ==
    IF topology_adapter_type = "onos" THEN <<"MAC", host, topology_adapter.nhosts>>
    ELSE <<"IP", host>>

get_host_dpid(host) ==
    IF topology_adapter_type = "onos" THEN <<"MAC", host, "/None">>
    ELSE <<"IP", host>>

\* raises NotImplementedError for floodlight: see SwitchDpidRaises
get_switch_dpid(switch) == <<"of:", SwitchMac(switch)>>

SwitchDpidRaises == topology_adapter_type # "onos"

\* isinstance(node, Switch) of the node net.get(name) returns
IsSwitch(name) == name \in Range(net.switches)

get_node_dpid(node) ==
    IF IsSwitch(node) THEN get_switch_dpid(node) ELSE get_host_dpid(node)

\* some node of the path is a switch, whose DPID floodlight cannot give
NodeDpidRaises(path) ==
    SwitchDpidRaises /\ \E k \in DOMAIN path : IsSwitch(path[k])

\* the nodes of the emulated network
NetNodes == Range(net.hosts) \cup Range(net.switches)

\* what get_node_dpid gives for every node of the network
NodeDpids ==
    [n \in NetNodes |->
        IF NodeDpidRaises(<<n>>) THEN <<"NotImplementedError">>
        ELSE <<get_node_dpid(n)>>]

\* what get_host_dpid gives for every host of the network
HostDpids == [h \in Range(net.hosts) |-> get_host_dpid(h)]

----------------------------------------------------------------------------
\* run_experiment: the convergence loop

\* a loop that goes on only while all three counts differ
MismatchOfAll(c) ==
    /\ c.n_sdn_hosts # c.expected_nhosts
    /\ c.n_sdn_links # c.expected_nlinks
    /\ c.n_sdn_switches # c.expected_nswitches

\* a loop that does not look at the hosts
MismatchIgnoringHosts(c) ==
    \/ c.n_sdn_links # c.expected_nlinks
    \/ c.n_sdn_switches # c.expected_nswitches

\* a loop that gives up after three iterations
MismatchWithinThreeTries(c) ==
    /\ c.ntries <= 3
    /\ \/ c.n_sdn_hosts # c.expected_nhosts
       \/ c.n_sdn_links # c.expected_nlinks
       \/ c.n_sdn_switches # c.expected_nswitches

\* the condition of the while loop
Mismatch(c) ==
    \/ c.n_sdn_hosts # c.expected_nhosts
    \/ c.n_sdn_links # c.expected_nlinks
    \/ c.n_sdn_switches # c.expected_nswitches

ConvLoopTest ==
    /\ pc = "loop_test"
    /\ IF Mismatch(conv)
       THEN /\ pc' = "conv_query"
            /\ conv' = conv
       ELSE /\ pc' = "traffic_generators"
            \* the loop's counter is not read again
            /\ conv' = [conv EXCEPT !.ntries = 0, !.success = FALSE, !.slept = 0,
                                  !.pinged = FALSE]
    /\ UNCHANGED <<sc, env, cli, error, config_vars, self_lists, self_nodes, net,
                   topology_adapter, proc_vars, su, fs, td, now, ca, result>>

\* the counts the controller may report of e emulated hosts, links or switches
\* (the NAT and its link are not reported): some not discovered yet, or one
\* left over from an earlier trial
CountChoices(e) == {e, e + 1} \cup (IF e > 0 THEN {e - 1} ELSE {})

\* setup_topology_manager and the three queries of the adapter it builds
ConvQuery ==
    /\ pc = "conv_query"
    /\ conv.ntries <= MaxTries
    /\ \E nh \in CountChoices(Len(net.hosts) - 1),
          nl \in CountChoices(Len(net.links) - 1),
          ns \in CountChoices(Len(net.switches)) :
          /\ topology_adapter' = [exists |-> TRUE, nhosts |-> nh, nlinks |-> nl,
                                  nswitches |-> ns]
          /\ conv' = [conv EXCEPT !.n_sdn_hosts = nh, !.n_sdn_links = nl,
                                  !.n_sdn_switches = ns,
                                  !.dpids_before = <<NodeDpids, HostDpids>>]
          /\ ca' = [ca EXCEPT !.hosts = (nh > 0), !.switches = (ns > 0)]
    /\ pc' = "conv_compare"
    /\ UNCHANGED <<sc, env, cli, error, config_vars, self_lists, self_nodes, net, proc_vars,
                   su, fs, td, now, result>>

ConvCompare ==
    /\ pc = "conv_compare"
    /\ LET ok == /\ conv.n_sdn_hosts = conv.expected_nhosts
                 /\ conv.expected_nlinks = conv.n_sdn_links
                 /\ conv.expected_nswitches = conv.n_sdn_switches
       IN conv' = [conv EXCEPT !.success = ok, !.slept = IF ok THEN 2 ELSE 10,
                               !.dpids_before = <<>>,
                               \* history: some query of this trial lacked a host
                               !.missed = @ \/ conv.n_sdn_hosts < conv.expected_nhosts]
    /\ pc' = "conv_reping"
    /\ UNCHANGED <<sc, env, cli, error, config_vars, self_lists, self_nodes, net,
                   topology_adapter, proc_vars, su, fs, td, now, ca, result>>

\* a test that looks at the count of iterations alone
EveryFifthTry(ntries, success) == ntries % 5 = 0

\* "if ntries % 5 == 0 and not success"
PingAgain(ntries, success) == ntries % 5 = 0 /\ ~success

ConvRePing ==
    /\ pc = "conv_reping"
    /\ LET again == PingAgain(conv.ntries, conv.success)
       IN /\ net' = IF again THEN ping_hosts(net) ELSE net
          /\ conv' = [conv EXCEPT !.ntries = @ + 1, !.pinged = again]
    /\ pc' = "loop_test"
    /\ UNCHANGED <<sc, env, cli, error, config_vars, self_lists, self_nodes,
                   topology_adapter, proc_vars, su, fs, td, now, ca, result>>

----------------------------------------------------------------------------
\* Calls of the controller adapter

\* topology_adapter.build_flow_rules_from_path: one output rule for every node
\* of the route but its two endpoints
build_flow_rules_from_path(route, matches, priority) ==
    IF Len(route) < 3 THEN <<>>
    ELSE [k \in 1..(Len(route) - 2) |->
            [dpid |-> route[k + 1], out |-> route[k + 2], matches |-> matches,
             priority |-> priority]]

\* topology_adapter.merge_paths: the two paths joined at their shared endpoint
merge_paths(p1, p2) == p1 \o Tail(p2)

Reverse(s) == [k \in 1..Len(s) |-> s[Len(s) + 1 - k]]

\* the exception e leaves run_experiment
Raise(e) ==
    /\ pc' = "raised"
    /\ error' = e

----------------------------------------------------------------------------
\* setup_traffic_generators

IPERF_BASE_PORT == 5000

\* one port for all the generators
iperf_base_port(n) == IPERF_BASE_PORT

\* "IPERF_BASE_PORT + n", n being the index enumerate gives the generator
iperf_port(n) == IPERF_BASE_PORT + n

SetupTrafficGenerators ==
    /\ pc = "traffic_generators"
    /\ \E n \in 0..MaxGenerators :
          /\ client_iperfs' = client_iperfs \o
                [k \in 1..n |-> [role |-> "iperf_client", host |-> "generator",
                                 port |-> iperf_port(k - 1)]]
          /\ server_iperfs' = server_iperfs \o
                [k \in 1..n |-> [role |-> "iperf_server", host |-> server,
                                 port |-> iperf_port(k - 1)]]
    /\ pc' = "setup_seismic_test"
    /\ UNCHANGED <<sc, env, cli, error, config_vars, self_lists, self_nodes, net,
                   topology_adapter, popens, conv, su, fs, td, now, ca, result>>

----------------------------------------------------------------------------
\* setup_seismic_test

\* the lists of subscribers a trial may choose: a subset of the hosts
SubscriberLists ==
    {q \in UNION {[1..n -> Range(TopoHosts)] : n \in 0..Len(TopoHosts)} :
        \A a, b \in DOMAIN q : a < b => \E x, y \in DOMAIN TopoHosts :
            x < y /\ TopoHosts[x] = q[a] /\ TopoHosts[y] = q[b]}

\* ipaddress.IPv4Address + i and str() of the sum: the dotted quad of the
\* 32-bit value (the sum raises AddressValueError past 255.255.255.255, which
\* no multicast base reaches with these numbers of trees)
IPv4Plus(addr, i) ==
    LET low == addr[2] * 65536 + addr[3] * 256 + addr[4] + i
    IN <<addr[1] + (low \div 16777216), (low \div 65536) % 256,
         (low \div 256) % 256, low % 256>>

\* a pool whose entries all have the base source port
mcast_address_pool_with_one_port(ntrees) ==
    [k \in 1..ntrees |->
        <<IPv4Plus(MULTICAST_ADDRESS_BASE, k - 1), MULTICAST_ALERT_BASE_SRC_PORT>>]

\* self.mcast_address_pool, as __init__ builds it of kwargs['ntrees']
mcast_address_pool(ntrees) ==
    [k \in 1..ntrees |->
        <<IPv4Plus(MULTICAST_ADDRESS_BASE, k - 1),
          MULTICAST_ALERT_BASE_SRC_PORT + (k - 1)>>]

\* comparison, ntrees and the address pool are fixed by the constructor; they
\* are drawn here, where setup_seismic_test reads them, and held until the
\* server's configuration is written, which is their last use
SetupBegin ==
    /\ pc = "setup_seismic_test"
    /\ \E subs \in SubscriberLists, cmp \in {"None", "unicast", "oracle"},
          nt \in 0..MaxTrees :
          LET use_unicast == (cmp # "None" /\ cmp = "unicast") \/ nt = 0
          IN IF use_unicast
             THEN /\ su' = [NoSu EXCEPT !.subscribers = subs, !.comparison = cmp,
                                        !.ntrees = nt, !.use_unicast = TRUE, !.i = 1,
                                        !.mcast_address_pool = mcast_address_pool(nt)]
                  /\ pc' = "unicast"
                  /\ error' = error
             ELSE IF cmp # "None" /\ cmp = "oracle"
             THEN /\ su' = [NoSu EXCEPT !.subscribers = subs, !.comparison = cmp,
                                        !.ntrees = nt,
                                        !.mcast_address_pool = mcast_address_pool(nt)]
                  /\ Raise("NotImplementedError")
             ELSE /\ su' = [NoSu EXCEPT !.subscribers = subs, !.comparison = cmp,
                                        !.ntrees = nt, !.i = 1,
                                        !.mcast_address_pool = mcast_address_pool(nt)]
                  /\ pc' = "server_cfg"
                  /\ error' = error
    /\ UNCHANGED <<sc, env, cli, config_vars, self_lists, self_nodes, net, topology_adapter,
                   proc_vars, conv, fs, td, now, ca, result>>

\* a driver that gives up when a batch is refused
AfterInstallOrAbort(ok, same) == IF ok THEN same ELSE "raised"

\* "if not self.topology_adapter.install_flow_rules(...): log.error(...)": the
\* position after the statement, for the result ok; same is the loop at hand
AfterInstall(ok, same) == same

\* a route that starts at the server's switch
UnicastRouteWithoutServerHost(sub) ==
    LET route == get_path(TopoLinks(topo_gateways), TopoServers[1], sub)
    IN [k \in 1..Len(route) |-> get_node_dpid(route[k])]

\* the route of the unicast arm for subscriber sub
UnicastRoute(sub) ==
    LET original_server_name == TopoServers[1]
        route == get_path(TopoLinks(topo_gateways), original_server_name, sub)
    IN <<get_host_dpid(server)>> \o [k \in 1..Len(route) |-> get_node_dpid(route[k])]

\* one pass of "for sub in subscribers" of the unicast arm
InstallUnicastRoute ==
    /\ pc = "unicast"
    /\ IF su.i > Len(su.subscribers)
       THEN /\ pc' = "server_cfg"
            /\ su' = [su EXCEPT !.i = 1, !.batch = NoBatch, !.batches = <<>>]
            /\ UNCHANGED <<sc, env, cli, error, ca>>
       ELSE LET sub == su.subscribers[su.i]
                path == get_path(TopoLinks(topo_gateways), TopoServers[1], sub)
            IN IF NodeDpidRaises(path)
               THEN /\ Raise("NotImplementedError")
                    /\ UNCHANGED <<sc, env, cli, su, ca>>
               ELSE \E ok \in BOOLEAN :
                    LET route == UnicastRoute(sub)
                        flow_rules == build_flow_rules_from_path(
                                         route, "None", STATIC_PATH_FLOW_RULE_PRIORITY)
                    IN /\ su' = [su EXCEPT !.i = @ + 1,
                                   !.batch = [kind |-> "unicast", sub |-> sub,
                                              gw |-> "None", route |-> route,
                                              rules |-> flow_rules, ok |-> ok],
                                   !.batches = Append(@, <<"unicast", sub, "None">>),
                                   !.failed = @ \/ ~ok]
                       /\ ca' = [ca EXCEPT !.flows = @ \/ (ok /\ flow_rules # <<>>)]
                       /\ pc' = AfterInstall(ok, pc)
                       /\ UNCHANGED <<sc, env, cli, error>>
    /\ UNCHANGED <<sc, env, cli, config_vars, self_lists, self_nodes, net, topology_adapter,
                   proc_vars, conv, fs, td, now, result>>

PROBE_BASE_SRC_PORT == 9900

ECHO_SERVER_PORT == 9999

\* the server's configuration: RideD, the alert server and, with RideC, the
\* data paths it registers
\* a range of one port
one_src_port(gws) == IF gws = <<>> THEN <<>> ELSE <<PROBE_BASE_SRC_PORT>>

\* range(PROBE_BASE_SRC_PORT, PROBE_BASE_SRC_PORT + len(self.cloud_gateways))
src_ports(gws) == [k \in 1..Len(gws) |-> PROBE_BASE_SRC_PORT + (k - 1)]

\* zip(a, b): the pairs, as many as the shorter of the two has entries
zip(a, b) ==
    [k \in 1..(IF Len(a) < Len(b) THEN Len(a) ELSE Len(b)) |-> <<a[k], b[k]>>]

\* an entry that names the first port whatever the gateway
data_path_arg_base_port(gw, src_port) ==
    <<gw, get_switch_dpid(gw), get_host_dpid(cloud), PROBE_BASE_SRC_PORT>>

\* [gw.name, self.get_switch_dpid(gw), self.get_host_dpid(self.cloud), src_port]
data_path_arg(gw, src_port) ==
    <<gw, get_switch_dpid(gw), get_host_dpid(cloud), src_port>>

BuildServerConfig ==
    /\ pc = "server_cfg"
    /\ \E ride_c \in BOOLEAN :
          IF ride_c /\ SwitchDpidRaises /\ cloud_gateways # <<>>
          THEN /\ Raise("NotImplementedError")
               /\ su' = [su EXCEPT !.with_ride_c = ride_c]
          ELSE /\ su' = [su EXCEPT
                           !.comparison = "None", !.ntrees = 0, !.use_unicast = FALSE,
                           !.mcast_address_pool = <<>>,
                           !.with_ride_c = ride_c,
                           !.j = 1,
                           !.data_path_args =
                              IF ride_c
                              THEN LET pairs == zip(cloud_gateways,
                                                    src_ports(cloud_gateways))
                                   IN [k \in DOMAIN pairs |->
                                         data_path_arg(pairs[k][1], pairs[k][2])]
                              ELSE <<>>]
               /\ pc' = IF ride_c THEN "probe" ELSE "launch_server"
               /\ error' = error
    /\ UNCHANGED <<sc, env, cli, config_vars, self_lists, self_nodes, net, topology_adapter,
                   proc_vars, conv, fs, td, now, ca, result>>

\* topology_adapter.get_path between two nodes of the emulated network, as DPIDs
AdapterPath(src, dst) ==
    LET p == get_path(net.links, src, dst)
    IN [k \in 1..Len(p) |-> get_node_dpid(p[k])]

\* probe rules whose return direction matches the ports of the forward one
ProbeRulesWithoutSwap(route, src_port) ==
    build_flow_rules_from_path(route,
        [udp_src |-> src_port, udp_dst |-> ECHO_SERVER_PORT],
        STATIC_PATH_FLOW_RULE_PRIORITY)
    \o build_flow_rules_from_path(Reverse(route),
        [udp_src |-> src_port, udp_dst |-> ECHO_SERVER_PORT],
        STATIC_PATH_FLOW_RULE_PRIORITY)

\* the rules of one data path: those along the route, then (frules.extend)
\* those along the reversed route with the two ports swapped
ProbeRules(route, src_port) ==
    LET dst_port == ECHO_SERVER_PORT
    IN build_flow_rules_from_path(route,
           [udp_src |-> src_port, udp_dst |-> dst_port],
           STATIC_PATH_FLOW_RULE_PRIORITY)
       \o build_flow_rules_from_path(Reverse(route),
           [udp_src |-> dst_port, udp_dst |-> src_port],
           STATIC_PATH_FLOW_RULE_PRIORITY)

\* one pass of "for gw, src_port in zip(self.cloud_gateways, src_ports)"
InstallProbeRoute ==
    /\ pc = "probe"
    /\ IF su.j > Len(zip(cloud_gateways, src_ports(cloud_gateways)))
       THEN /\ pc' = "launch_server"
            /\ su' = [su EXCEPT !.j = 1, !.batch = NoBatch,
                                !.data_path_args = <<>>, !.batches = <<>>]
            /\ UNCHANGED <<sc, env, cli, ca>>
       ELSE \E ok \in BOOLEAN :
            LET pair == zip(cloud_gateways, src_ports(cloud_gateways))[su.j]
                gw == pair[1]
                src_port == pair[2]
                edge_gw_route == AdapterPath(server, gw)
                gw_cloud_route == AdapterPath(gw, cloud)
                route == merge_paths(edge_gw_route, gw_cloud_route)
                frules == ProbeRules(route, src_port)
            IN /\ su' = [su EXCEPT !.j = @ + 1,
                           !.batch = [kind |-> "probe", sub |-> "None", gw |-> gw,
                                      route |-> route, rules |-> frules, ok |-> ok],
                           !.batches = Append(@, <<"probe", "None", gw>>),
                           !.probed = Append(@, gw),
                           !.failed = @ \/ ~ok]
               /\ ca' = [ca EXCEPT !.flows = @ \/ (ok /\ frules # <<>>)]
               /\ pc' = AfterInstall(ok, pc)
    /\ UNCHANGED <<sc, env, cli, error, config_vars, self_lists, self_nodes, net,
                   topology_adapter, proc_vars, conv, fs, td, now, result>>

LaunchServer ==
    /\ pc = "launch_server"
    /\ popens' = Append(popens, [role |-> "server", host |-> server, port |-> 0])
    /\ pc' = "launch_cloud"
    /\ UNCHANGED <<sc, env, cli, error, config_vars, self_lists, self_nodes, net,
                   topology_adapter, client_iperfs, server_iperfs, conv, su, fs,
                   td, now, ca, result>>

LaunchCloud ==
    /\ pc = "launch_cloud"
    /\ IF with_cloud
       THEN popens' = Append(popens, [role |-> "cloud", host |-> cloud, port |-> 0])
       ELSE popens' = popens
    /\ su' = [su EXCEPT !.i = 1, !.j = 1]
    /\ pc' = "cloud_routes"
    /\ UNCHANGED <<sc, env, cli, error, config_vars, self_lists, self_nodes, net,
                   topology_adapter, client_iperfs, server_iperfs, conv, fs, td,
                   now, ca, result>>

\* a route that starts at the gateway itself
CloudGatewayRouteFromGateway(sub, gw) ==
    LET path == get_path(TopoLinks(topo_gateways), gw, sub)
    IN [k \in 1..Len(path) |-> get_node_dpid(path[k])]

\* the route from gateway gw to subscriber sub: the DPIDs of the topology's
\* path, with (path.insert(0, ...)) the DPID of the first cloud switch in front
CloudGatewayRoute(sub, gw) ==
    LET path == get_path(TopoLinks(topo_gateways), gw, sub)
    IN <<get_node_dpid(cloud_switches[1])>>
       \o [k \in 1..Len(path) |-> get_node_dpid(path[k])]

\* clients for the subscribers alone
subscribers_alone(sensors, subscribers) == subscribers

\* sensors.union(subscribers), of the two sets
clients_to_launch(sensors, subscribers) == sensors \cup subscribers

\* one pass of "for gw in self.cloud_gateways" inside "for sub in subscribers"
InstallCloudGatewayRoute ==
    /\ pc = "cloud_routes"
    /\ IF su.i > Len(su.subscribers)
       THEN /\ pc' = "launch_clients"
            /\ \E sensors \in SUBSET Range(TopoHosts) :
                  \* sensors = set(sensors); subscribers = set(subscribers)
                  su' = [NoSu EXCEPT
                           !.failed = su.failed,
                           !.with_ride_c = su.with_ride_c,
                           !.probed = su.probed,
                           !.sensors = sensors,
                           !.subscribers = su.subscribers,
                           !.clients = clients_to_launch(sensors, Range(su.subscribers))]
            /\ UNCHANGED <<sc, env, cli, error, ca>>
       ELSE IF su.j > Len(cloud_gateways)
       THEN /\ su' = [su EXCEPT !.i = @ + 1, !.j = 1]
            /\ UNCHANGED <<sc, env, cli, pc, error, ca>>
       ELSE LET sub == su.subscribers[su.i]
                gw == cloud_gateways[su.j]
                path == get_path(TopoLinks(topo_gateways), gw, sub)
            IN IF NodeDpidRaises(path)
               THEN /\ Raise("NotImplementedError")
                    /\ UNCHANGED <<sc, env, cli, su, ca>>
               ELSE IF cloud_switches = <<>>
               THEN /\ Raise("IndexError")
                    /\ UNCHANGED <<sc, env, cli, su, ca>>
               ELSE \E ok \in BOOLEAN :
                    LET route == CloudGatewayRoute(sub, gw)
                        frules == build_flow_rules_from_path(
                                     route, [ipv4_dst |-> <<"IP", sub>>,
                                             ipv4_src |-> <<"IP", cloud>>],
                                     STATIC_PATH_FLOW_RULE_PRIORITY)
                    IN /\ su' = [su EXCEPT !.j = @ + 1,
                                   !.batch = [kind |-> "cloud_gateway", sub |-> sub,
                                              gw |-> gw, route |-> route,
                                              rules |-> frules, ok |-> ok],
                                   !.batches = Append(@, <<"cloud_gateway", sub, gw>>),
                                   !.failed = @ \/ ~ok]
                       /\ ca' = [ca EXCEPT !.flows = @ \/ (ok /\ frules # <<>>)]
                       /\ pc' = AfterInstall(ok, pc)
                       /\ UNCHANGED <<sc, env, cli, error>>
    /\ UNCHANGED <<sc, env, cli, config_vars, self_lists, self_nodes, net, topology_adapter,
                   proc_vars, conv, fs, td, now, result>>

\* one pass of "for client in sensors.union(subscribers)"; the set is iterated
\* in an order the program does not choose
LaunchClient ==
    /\ pc = "launch_clients"
    /\ IF su.clients = {}
       THEN /\ pc' = "fs_begin"
            /\ su' = [NoSu EXCEPT !.failed = su.failed,
                                  !.with_ride_c = su.with_ride_c,
                                  !.probed = su.probed]
            /\ popens' = popens
       ELSE \E client \in su.clients :
            /\ popens' = Append(popens, [role |-> "client", host |-> client, port |-> 0])
            \* args = base_args, + pubs_cfg for a sensor, + subs_cfg for a subscriber
            /\ su' = [su EXCEPT !.clients = @ \ {client},
                                !.launched = Append(@,
                                    [host |-> client,
                                     pubs_cfg |-> client \in su.sensors,
                                     subs_cfg |-> client \in Range(su.subscribers)])]
            /\ pc' = pc
    /\ UNCHANGED <<sc, env, cli, error, config_vars, self_lists, self_nodes, net,
                   topology_adapter, client_iperfs, server_iperfs, conv, fs, td,
                   now, ca, result>>

----------------------------------------------------------------------------
\* run_experiment: the fault schedule

\* sorted(): the pairs in ascending order of their gateway names (the cloud
\* switch is the same in all of them)
\* the links in the order of self.cloud_gateways
as_listed(dpls) == dpls

RECURSIVE sorted(_)
sorted(dpls) ==
    IF dpls = <<>> THEN <<>>
    ELSE LET m == CHOOSE a \in DOMAIN dpls :
                    \A b \in DOMAIN dpls : NameRank(dpls[a][1]) <= NameRank(dpls[b][1])
         IN <<dpls[m]>> \o sorted([k \in 1..(Len(dpls) - 1) |->
                                     IF k < m THEN dpls[k] ELSE dpls[k + 1]])

\* the property data_path_links; it raises IndexError when there is a gateway
\* and no cloud switch
data_path_links ==
    [k \in 1..Len(cloud_gateways) |-> <<cloud_gateways[k], cloud_switches[1]>>]

DataPathLinksRaises == cloud_gateways # <<>> /\ cloud_switches = <<>>

\* a list of changes whose last entry waits no time
PlannedChangesWithoutLastDelay(dpls) ==
    LET rest == [k \in 1..(Len(dpls) - 1) |->
                   <<dpls[k + 1][1], dpls[k + 1][2], "down", TIME_BETWEEN_SEISMIC_EVENTS>>]
    IN << <<dpls[1][1], dpls[1][2], "down", 0>> >> \o rest
       \o << <<dpls[1][1], dpls[1][2], "up", 0>> >>

\* the list of changes run_experiment builds of the sorted data-path links
PlannedChanges(dpls) ==
    LET rest == [k \in 1..(Len(dpls) - 1) |->
                   <<dpls[k + 1][1], dpls[k + 1][2], "down", TIME_BETWEEN_SEISMIC_EVENTS>>]
        first_dpl == dpls[1]
    IN << <<first_dpl[1], first_dpl[2], "down", 0>> >> \o rest
       \o << <<first_dpl[1], first_dpl[2], "up", TIME_BETWEEN_SEISMIC_EVENTS>> >>

\* a body that sleeps after the toggle
FsBodySleepingLast == <<"fs_stamp", "fs_toggle", "fs_sleep">>

\* the statements of the body of "for i, (cloud_gw, cloud_switch, status, delay)
\* in enumerate(data_path_changes)" before its "if i == 1", in their order
FsBody == <<"fs_sleep", "fs_stamp", "fs_toggle">>

\* the statement that follows statement p of the body
FsAfter(p) ==
    LET k == CHOOSE j \in DOMAIN FsBody : FsBody[j] = p
    IN IF k < Len(FsBody) THEN FsBody[k + 1] ELSE "quake_test"

BeginFaultSchedule ==
    /\ pc = "fs_begin"
    /\ IF DataPathLinksRaises \/ cloud_gateways = <<>>
       THEN /\ Raise("IndexError")
            /\ UNCHANGED <<sc, env, cli, fs, now, su>>
       ELSE \* the locals of setup_seismic_test are gone
            /\ su' = [NoSu EXCEPT !.failed = su.failed,
                                  !.with_ride_c = su.with_ride_c,
                                  !.probed = su.probed]
            /\ fs' = [NoFs EXCEPT
                        !.exp_start_time = 0,
                        !.data_path_changes = PlannedChanges(sorted(data_path_links)),
                        !.i = 0, !.yielded = TRUE]
            \* time.sleep(SEISMIC_EVENT_DELAY)
            /\ now' = SEISMIC_EVENT_DELAY
            /\ pc' = FsBody[1]
            /\ error' = error
    /\ UNCHANGED <<sc, env, cli, config_vars, self_lists, self_nodes, net, topology_adapter,
                   proc_vars, conv, td, ca, result>>

\* time.sleep(delay) of change i
FsSleep ==
    /\ pc = "fs_sleep"
    /\ now' = now + fs.data_path_changes[fs.i + 1][4]
    /\ fs' = [fs EXCEPT !.yielded = TRUE]
    /\ pc' = FsAfter("fs_sleep")
    /\ UNCHANGED <<sc, env, cli, error, config_vars, self_lists, self_nodes, net,
                   topology_adapter, proc_vars, conv, su, td, ca, result>>

\* a record kept with the latest change first
record_change_in_front(output_dp_changes, c, dp_change_time) ==
    << <<c[1], c[3], dp_change_time>> >> \o output_dp_changes

\* output_dp_changes.append((cloud_gw, new_status, dp_change_time))
record_change(output_dp_changes, c, dp_change_time) ==
    Append(output_dp_changes, <<c[1], c[3], dp_change_time>>)

\* dp_change_time = time.time() and the entry of output_dp_changes
FsStamp ==
    /\ pc = "fs_stamp"
    /\ LET c == fs.data_path_changes[fs.i + 1]
       IN fs' = [fs EXCEPT !.output_dp_changes = record_change(@, c, now)]
    /\ pc' = FsAfter("fs_stamp")
    /\ UNCHANGED <<sc, env, cli, error, config_vars, self_lists, self_nodes, net,
                   topology_adapter, proc_vars, conv, su, td, now, ca, result>>

\* net.configLinkStatus(src, dst, status): nothing changes when no link joins them
configLinkStatus(n, src, dst, status) ==
    IF <<src, dst>> \in Range(n.links) \/ <<dst, src>> \in Range(n.links)
    THEN [n EXCEPT !.down = IF status = "down" THEN @ \cup {{src, dst}}
                             ELSE @ \ {{src, dst}}]
    ELSE n

\* where the loop over data_path_changes goes after the body of change i
AfterChange(i) ==
    IF i + 1 < Len(fs.data_path_changes) THEN FsBody[1] ELSE "fs_wait"

\* net.configLinkStatus of change i; yielded tells whether the driver has slept
\* since the last toggle of a data-path link
FsToggle ==
    /\ pc = "fs_toggle"
    /\ LET c == fs.data_path_changes[fs.i + 1]
       IN net' = configLinkStatus(net, c[1], c[2], c[3])
    /\ fs' = [fs EXCEPT !.yielded = FALSE]
    \* what was probed is looked at up to the first change
    /\ su' = [su EXCEPT !.with_ride_c = FALSE, !.probed = <<>>]
    /\ pc' = FsAfter("fs_toggle")
    /\ UNCHANGED <<sc, env, cli, error, config_vars, self_lists, self_nodes, topology_adapter,
                   proc_vars, conv, td, now, ca, result>>

\* a quake that follows the first change
IsFirstChange(i) == i = 0

\* "if i == 1"
IsQuakeChange(i) == i = 1

\* the test that ends the body of change i
QuakeTest ==
    /\ pc = "quake_test"
    /\ IF IsQuakeChange(fs.i)
       THEN /\ pc' = "quake"
            /\ fs' = fs
       ELSE /\ pc' = AfterChange(fs.i)
            /\ fs' = [fs EXCEPT !.i = @ + 1]
    /\ UNCHANGED <<sc, env, cli, error, config_vars, self_lists, self_nodes, net,
                   topology_adapter, proc_vars, conv, su, td, now, ca, result>>

\* the failed links a trial may choose, as the list the driver iterates
FailedLinkLists ==
    { <<>>, << <<"a0", "a1">> >>, << <<"g0", "x0">> >>,
      << <<"a0", "a1">>, <<"g0", "x0">> >> }

\* the failed nodes a trial may choose
FailedNodeLists == { <<>>, <<"a1">> }

\* quake_time = time.time(), before the failure model is applied
QuakeStart ==
    /\ pc = "quake"
    /\ \E fl \in FailedLinkLists, fn \in FailedNodeLists :
          fs' = [fs EXCEPT !.quake_time = now, !.quakes = @ + 1,
                           !.failed_links = fl, !.failed_nodes = fn, !.k = 1]
    /\ pc' = "quake_links"
    /\ UNCHANGED <<sc, env, cli, error, config_vars, self_lists, self_nodes, net,
                   topology_adapter, proc_vars, conv, su, td, now, ca, result>>

\* one pass of "for link in self.failed_links"
QuakeFailLink ==
    /\ pc = "quake_links"
    /\ IF fs.k > Len(fs.failed_links)
       THEN /\ pc' = "quake_nodes"
            /\ fs' = [fs EXCEPT !.k = 1]
            /\ net' = net
       ELSE /\ net' = configLinkStatus(net, fs.failed_links[fs.k][1],
                                       fs.failed_links[fs.k][2], "down")
            /\ fs' = [fs EXCEPT !.k = @ + 1]
            /\ pc' = pc
    /\ UNCHANGED <<sc, env, cli, error, config_vars, self_lists, self_nodes, topology_adapter,
                   proc_vars, conv, su, td, now, ca, result>>

\* node.stop(deleteIntfs=False): the node stops and its interfaces stay
stop(n, node) == [n EXCEPT !.stopped = @ \cup {node}]

\* one pass of "for node in self.failed_nodes"
QuakeStopNode ==
    /\ pc = "quake_nodes"
    /\ IF fs.k > Len(fs.failed_nodes)
       THEN /\ pc' = AfterChange(fs.i)
            /\ fs' = [fs EXCEPT !.k = 0, !.i = @ + 1]
            /\ net' = net
       ELSE /\ net' = stop(net, fs.failed_nodes[fs.k])
            /\ fs' = [fs EXCEPT !.k = @ + 1]
            /\ pc' = pc
    /\ UNCHANGED <<sc, env, cli, error, config_vars, self_lists, self_nodes, topology_adapter,
                   proc_vars, conv, su, td, now, ca, result>>

\* the sleep to the end of the experiment, and the return of run_experiment
FinishExperiment ==
    /\ pc = "fs_wait"
    /\ result' = [returned |-> TRUE, quake_start_time |-> fs.quake_time,
                  data_path_changes |-> fs.output_dp_changes]
    \* the plan and quake_time are kept beside the result until teardown_experiment starts
    /\ fs' = [NoFs EXCEPT !.data_path_changes = fs.data_path_changes,
                          !.quake_time = fs.quake_time, !.yielded = TRUE]
    /\ conv' = NoConv
    /\ LET remaining_time == fs.exp_start_time + EXPERIMENT_DURATION - now
       IN now' = IF remaining_time > 0 THEN now + remaining_time ELSE now
    /\ su' = NoSu
    /\ pc' = "teardown"
    /\ UNCHANGED <<sc, env, cli, error, config_vars, self_lists, self_nodes, net,
                   topology_adapter, proc_vars, td, ca>>

----------------------------------------------------------------------------
\* teardown_experiment: draining the processes

\* the exit codes a process may end with by itself
ExitCodes == {0, 1}

\* the exit code of a process after proc.kill()
SIGKILL_RET == 0 - 9

\* range(wait_time/timeout) of wait_then_kill, with its default arguments
WtkPolls == 2 \div 1

\* a teardown that goes from the server straight to the traffic generators
AfterWaitWithoutCloud(caller, k) ==
    CASE caller = "clients" ->
            IF k + 1 <= Len(popens)
            THEN [caller |-> "clients", k |-> k + 1, pc |-> "wtk_poll"]
            ELSE [caller |-> "server", k |-> 1, pc |-> "wtk_poll"]
      [] caller = "server" ->
            [caller |-> "None", k |-> 1, pc |-> "wait_iperf_clients"]
      [] OTHER ->
            IF k + 1 <= Len(server_iperfs)
            THEN [caller |-> "iperf_servers", k |-> k + 1, pc |-> "wtk_poll"]
            ELSE [caller |-> "None", k |-> 0, pc |-> "clear_handles"]

\* what teardown_experiment does after wait_then_kill returned to the loop or
\* statement `caller`, whose handle was number k of its list
AfterWait(caller, k) ==
    CASE caller = "clients" ->
            IF k + 1 <= Len(popens)
            THEN [caller |-> "clients", k |-> k + 1, pc |-> "wtk_poll"]
            ELSE [caller |-> "server", k |-> 1, pc |-> "wtk_poll"]
      [] caller = "server" ->
            IF with_cloud
            THEN [caller |-> "cloud", k |-> 2, pc |-> "wtk_poll"]
            ELSE [caller |-> "None", k |-> 1, pc |-> "wait_iperf_clients"]
      [] caller = "cloud" ->
            [caller |-> "None", k |-> 1, pc |-> "wait_iperf_clients"]
      [] OTHER ->
            IF k + 1 <= Len(server_iperfs)
            THEN [caller |-> "iperf_servers", k |-> k + 1, pc |-> "wtk_poll"]
            ELSE [caller |-> "None", k |-> 0, pc |-> "clear_handles"]

\* the handle wait_then_kill is working on
CurrentProc ==
    IF td.caller = "iperf_servers" THEN server_iperfs[td.k] ELSE popens[td.k]

\* a start index that counts the cloud handle when there is none
client_popen_start_idx_swapped == IF with_cloud THEN 1 ELSE 2

\* the number of handles in front of the clients' in self.popens
client_popen_start_idx == IF ~with_cloud THEN 1 ELSE 2

\* time.sleep(20) and the start of "for p in self.popens[client_popen_start_idx:]"
TeardownBegin ==
    /\ pc = "teardown"
    /\ LET nxt == IF client_popen_start_idx + 1 <= Len(popens)
                  THEN [caller |-> "clients", k |-> client_popen_start_idx + 1]
                  ELSE [caller |-> "server", k |-> 1]
       IN td' = [NoTd EXCEPT !.caller = nxt.caller, !.k = nxt.k]
    /\ fs' = NoFs
    /\ pc' = "wtk_poll"
    /\ UNCHANGED <<sc, env, cli, error, config_vars, self_lists, self_nodes, net,
                   topology_adapter, proc_vars, conv, su, now, ca, result>>

\* a loop that runs out after its first pass
LoopRanOutAfterOne(w_i) == w_i >= 1

\* "for i in range(wait_time/timeout)" has no pass left after w_i passes
LoopRanOut(w_i) == w_i >= WtkPolls

\* wait_then_kill: one pass of its for loop, or the loop running out
WtkPoll ==
    /\ pc = "wtk_poll"
    /\ IF ~LoopRanOut(td.w_i)
       THEN \E ret \in {<<>>} \cup {<<c>> : c \in ExitCodes} :
               IF ret # <<>>
               THEN LET nxt == AfterWait(td.caller, td.k)
                    IN /\ td' = [td EXCEPT !.caller = nxt.caller, !.k = nxt.k,
                                           !.w_i = 0, !.ret = ret,
                                           !.returned = [ret |-> ret, nones |-> td.w_i,
                                                         killed |-> FALSE],
                                           !.drained = Append(@, CurrentProc),
                                           !.drained_as = Append(@, td.caller)]
                       /\ pc' = nxt.pc
               ELSE \* time.sleep(timeout)
                    /\ td' = [td EXCEPT !.w_i = @ + 1, !.ret = <<>>,
                                           !.returned = NoTd.returned]
                    /\ pc' = pc
       ELSE /\ pc' = "wtk_kill"
            /\ td' = td
    /\ UNCHANGED <<sc, env, cli, error, config_vars, self_lists, self_nodes, net,
                   topology_adapter, proc_vars, conv, su, fs, now, ca, result>>

\* wait_then_kill: the else clause of the loop, proc.kill() and proc.wait().
\* The process is a child that was not waited for, so kill() finds it; wait()
\* returns the code of the signal, or the code the process exited with if it
\* did so during the last sleep.
WtkKill ==
    /\ pc = "wtk_kill"
    /\ \E code \in {SIGKILL_RET} \cup ExitCodes :
       LET nxt == AfterWait(td.caller, td.k)
       IN /\ td' = [td EXCEPT !.caller = nxt.caller, !.k = nxt.k, !.w_i = 0,
                              !.ret = <<code>>,
                              !.returned = [ret |-> <<code>>, nones |-> td.w_i,
                                            killed |-> TRUE],
                              !.drained = Append(@, CurrentProc),
                              !.drained_as = Append(@, td.caller)]
          /\ pc' = nxt.pc
    /\ UNCHANGED <<sc, env, cli, error, config_vars, self_lists, self_nodes, net,
                   topology_adapter, proc_vars, conv, su, fs, now, ca, result>>

\* one pass of "for p in self.client_iperfs: p.wait()"; the step happens when
\* the iperf client has exited
WaitIperfClient ==
    /\ pc = "wait_iperf_clients"
    /\ IF td.k <= Len(client_iperfs)
       THEN \* p.wait() has no timeout: it returns when the child has exited
            \* and never when the child does not exit
            \/ /\ td' = [td EXCEPT !.k = @ + 1, !.ret = <<>>,
                                   !.returned = NoTd.returned,
                                   !.drained = Append(@, client_iperfs[td.k]),
                                   !.drained_as = Append(@, "iperf_clients")]
               /\ pc' = pc
            \/ /\ td' = [td EXCEPT !.ret = <<>>, !.returned = NoTd.returned]
               /\ pc' = "wait_blocked"
       ELSE IF server_iperfs # <<>>
       THEN /\ td' = [td EXCEPT !.caller = "iperf_servers", !.k = 1, !.w_i = 0,
                                !.ret = <<>>, !.returned = NoTd.returned]
            /\ pc' = "wtk_poll"
       ELSE /\ td' = [td EXCEPT !.k = 0]
            /\ pc' = "clear_handles"
    /\ UNCHANGED <<sc, env, cli, error, config_vars, self_lists, self_nodes, net,
                   topology_adapter, proc_vars, conv, su, fs, now, ca, result>>

\* the three handle lists emptied, and the clean-up command
ClearHandles ==
    /\ pc = "clear_handles"
    /\ popens' = <<>>
    /\ server_iperfs' = <<>>
    /\ client_iperfs' = <<>>
    /\ td' = [td EXCEPT !.ret = <<>>, !.returned = NoTd.returned]
    /\ pc' = "stop_net"
    /\ UNCHANGED <<sc, env, cli, error, config_vars, self_lists, self_nodes, net,
                   topology_adapter, conv, su, fs, now, ca, result>>

----------------------------------------------------------------------------
\* teardown_experiment: the emulation and the controller

\* a teardown that lets the OSError of self.net.stop() through
AfterStopOrAbort(raised) == IF raised THEN "raised" ELSE "mn_clean"

\* the position after "try: self.net.stop() except OSError as e: log.error(...)"
AfterStop(raised) == "mn_clean"

\* self.net.stop(), whose OSError is logged and passed over
StopNetwork ==
    /\ pc = "stop_net"
    /\ \E raised \in BOOLEAN :
          /\ td' = [td EXCEPT !.stop_error = raised]
          /\ net' = IF raised THEN net
                    ELSE [net EXCEPT !.started = FALSE, !.arp = FALSE, !.down = {},
                                   !.stopped = {}]
          /\ pc' = AfterStop(raised)
    /\ UNCHANGED <<sc, env, cli, error, config_vars, self_lists, self_nodes, topology_adapter,
                   proc_vars, conv, su, fs, now, ca, result>>

\* 'sudo mn -c', which removes what the emulation left behind
CleanMininet ==
    /\ pc = "mn_clean"
    /\ net' = [net EXCEPT !.started = FALSE, !.arp = FALSE, !.down = {},
                                   !.stopped = {}]
    \* the groups the server's RideD may have installed while it ran; the
    \* driver meets them in the controller from here on
    /\ \E g \in BOOLEAN : ca' = [ca EXCEPT !.groups = @ \/ g]
    /\ pc' = "reset_controller"
    /\ UNCHANGED <<sc, env, cli, error, config_vars, self_lists, self_nodes, topology_adapter,
                   proc_vars, conv, su, fs, td, now, result>>

\* the branch on topology_adapter_type: the ONOS wipe-out and restart, the
\* removal of the flow rules through the REST API, or the warning
ResetController ==
    /\ pc = "reset_controller"
    /\ IF topology_adapter_type = "onos"
       THEN \* a restarted ONOS holds no flow rule and no group; the hosts and
            \* the switches it learnt go away when they go away
            /\ ca' = [ca EXCEPT !.flows = FALSE, !.groups = FALSE]
            /\ td' = td
            /\ pc' = "onos_sleep"
       ELSE IF topology_adapter.exists
       THEN \* remove_all_flow_rules(): the removal is committed some time later
            /\ \E committed \in BOOLEAN :
                  ca' = [ca EXCEPT !.flows = @ /\ ~committed]
            /\ td' = [td EXCEPT !.flow_removals = @ + 1]
            /\ pc' = "rest_groups"
       ELSE /\ ca' = ca
            /\ td' = td
            /\ pc' = "clear_collections"
    /\ UNCHANGED <<sc, env, cli, error, config_vars, self_lists, self_nodes, net,
                   topology_adapter, proc_vars, conv, su, fs, now, result>>

\* a loop that ends with the first answer of the controller
onos_answers(ret) == TRUE

\* "if ret == []: onos_running = True", ret being the hosts listed
onos_running(ret) == ret = <<>>

\* "time.sleep(10)", the first statement of a pass of "while not onos_running"
OnosSleep ==
    /\ pc = "onos_sleep"
    /\ td' = [td EXCEPT !.waited = 10]
    /\ pc' = "onos_poll"
    /\ UNCHANGED <<sc, env, cli, error, config_vars, self_lists, self_nodes, net,
                   topology_adapter, proc_vars, conv, su, fs, now, ca, result>>

\* one pass of "while not onos_running": the sleep, then get_hosts(), which
\* raises IOError while ONOS is down; on an empty list get_switches() is read
\* and what it returns is only logged
OnosPoll ==
    /\ pc = "onos_poll"
    /\ \E io_error \in BOOLEAN, hosts_left \in BOOLEAN, switches_left \in BOOLEAN :
          IF io_error
          THEN /\ ca' = ca
               /\ pc' = "onos_sleep"
          ELSE LET ret == IF ca.hosts /\ hosts_left THEN <<"host">> ELSE <<>>
               IN IF onos_running(ret)
                  THEN /\ ca' = [ca EXCEPT !.hosts = (ret # <<>>),
                                           !.switches = @ /\ switches_left]
                       /\ pc' = "clear_collections"
                  ELSE /\ ca' = ca
                       /\ pc' = "onos_sleep"
    /\ td' = [td EXCEPT !.waited = 0]
    /\ UNCHANGED <<sc, env, cli, error, config_vars, self_lists, self_nodes, net,
                   topology_adapter, proc_vars, conv, su, fs, now, result>>

\* one pass of "while ngroups > 0": remove_all_groups(), the sleep, get_groups()
RestRemoveGroups ==
    /\ pc = "rest_groups"
    /\ \E groups_left \in BOOLEAN :
          /\ ca' = [ca EXCEPT !.groups = @ /\ groups_left]
          /\ pc' = IF ca'.groups THEN pc ELSE "clear_collections"
    /\ td' = [td EXCEPT !.removed_groups = TRUE]
    /\ UNCHANGED <<sc, env, cli, error, config_vars, self_lists, self_nodes, net,
                   topology_adapter, proc_vars, conv, su, fs, now, result>>

\* the collections of the driver emptied, and the sleep between two runs
\* a list left as it is
kept_list(l) == l

\* "self.<list> = []"
new_list(l) == <<>>

ClearCollections ==
    /\ pc = "clear_collections"
    /\ hosts' = new_list(hosts)
    /\ switches' = new_list(switches)
    /\ cloud_gateways' = new_list(cloud_gateways)
    /\ cloud_switches' = new_list(cloud_switches)
    /\ links' = new_list(links)
    /\ net' = NoNet
    /\ controller' = "None"
    /\ nat' = "None"
    /\ server_switch' = "None"
    /\ popens' = <<>>
    /\ client_iperfs' = <<>>
    /\ server_iperfs' = <<>>
    \* time.sleep(SLEEP_TIME_BETWEEN_RUNS); whether net.stop() had failed is
    \* kept beside it until the next run
    /\ td' = [NoTd EXCEPT !.stop_error = td.stop_error, !.slept = TRUE]
    /\ pc' = "trial_done"
    /\ UNCHANGED <<sc, env, cli, error, config_vars, server, cloud, topology_adapter, conv, su,
                   fs, now, ca, result>>

\* the loop over the runs: the result is recorded and the next run set up
NextTrial ==
    /\ pc = "trial_done"
    /\ result' = NoResult
    /\ now' = 0
    /\ td' = NoTd
    /\ pc' = "setup_topology"
    /\ UNCHANGED <<sc, env, cli, error, config_vars, self_lists, self_nodes, net,
                   topology_adapter, proc_vars, conv, su, fs, ca>>

----------------------------------------------------------------------------
Next ==
    \/ SetupTopology
    \/ StartNetwork
    \/ FirstPing
    \/ ComputeExpected
    \/ ConvLoopTest
    \/ ConvQuery
    \/ ConvCompare
    \/ ConvRePing
    \/ SetupTrafficGenerators
    \/ SetupBegin
    \/ InstallUnicastRoute
    \/ BuildServerConfig
    \/ InstallProbeRoute
    \/ LaunchServer
    \/ LaunchCloud
    \/ InstallCloudGatewayRoute
    \/ LaunchClient
    \/ BeginFaultSchedule
    \/ FsSleep
    \/ FsStamp
    \/ FsToggle
    \/ QuakeTest
    \/ QuakeStart
    \/ QuakeFailLink
    \/ QuakeStopNode
    \/ FinishExperiment
    \/ TeardownBegin
    \/ WtkPoll
    \/ WtkKill
    \/ WaitIperfClient
    \/ ClearHandles
    \/ StopNetwork
    \/ CleanMininet
    \/ ResetController
    \/ OnosSleep
    \/ OnosPoll
    \/ RestRemoveGroups
    \/ ClearCollections
    \/ NextTrial

Spec == Init /\ [][Next]_vars

----------------------------------------------------------------------------
\* Properties of the convergence loop

\* the positions of run_experiment between the convergence loop and its return
AfterLoop ==
    {"traffic_generators", "setup_seismic_test", "unicast", "server_cfg", "probe",
     "launch_server", "launch_cloud", "cloud_routes", "launch_clients", "fs_begin",
     "fs_sleep", "fs_stamp", "fs_toggle", "quake_test", "quake", "quake_links",
     "quake_nodes", "fs_wait"}

\* the adapter built last reports as many hosts as the emulation has without the
\* NAT, expected_nlinks links and expected_nswitches switches
AdapterAgrees ==
    /\ topology_adapter.exists
    /\ topology_adapter.nhosts = Len(Without(net.hosts, nat))
    /\ topology_adapter.nlinks = conv.expected_nlinks
    /\ topology_adapter.nswitches = conv.expected_nswitches

\* the counts run_experiment holds are those of the adapter built last
CountsAreFresh ==
    /\ conv.n_sdn_hosts = topology_adapter.nhosts
    /\ conv.n_sdn_links = topology_adapter.nlinks
    /\ conv.n_sdn_switches = topology_adapter.nswitches

\* C1: run_experiment is past its convergence loop only with a freshly queried
\* adapter whose host count is the number of emulated hosts without the NAT,
\* whose link count is expected_nlinks and whose switch count is
\* expected_nswitches, all three at once; it is inside the loop, about to
\* query again, only with one of the three different.
C1_LoopExitsOnAgreement ==
    /\ pc \in AfterLoop => AdapterAgrees /\ CountsAreFresh
    /\ pc = "conv_query" =>
          \/ conv.n_sdn_hosts # Len(Without(net.hosts, nat))
          \/ conv.n_sdn_links # conv.expected_nlinks
          \/ conv.n_sdn_switches # conv.expected_nswitches

\* the loop has been left after an iteration that lacked a host
C1_Witness ==
    /\ pc = "traffic_generators"
    /\ conv.missed
    /\ AdapterAgrees

\* C2: whenever a batch of flow rules has been handed to install_flow_rules,
\* the convergence loop of the same trial has seen the host, link and switch
\* counts it expects, also when earlier iterations lacked a host.
C2_NoInstallBeforeConvergence ==
    su.batch.kind # "None" =>
        /\ pc \in AfterLoop \cup {"raised"}
        /\ topology_adapter.exists
        /\ conv.n_sdn_hosts = conv.expected_nhosts
        /\ conv.n_sdn_links = conv.expected_nlinks
        /\ conv.n_sdn_switches = conv.expected_nswitches
        /\ CountsAreFresh

\* a unicast route was installed in a trial whose first iterations lacked a host
C2_Witness ==
    /\ su.batch.kind = "unicast"
    /\ su.batch.rules # <<>>
    /\ conv.missed

----------------------------------------------------------------------------
\* Properties of the order of the phases

\* the positions of run_experiment before and inside the convergence loop
BeforeLoop == {"setup_topology", "start_network", "ping_hosts", "expected"}

InLoop == {"loop_test", "conv_query", "conv_compare", "conv_reping"}

\* the positions of the fault schedule
InFaultSchedule ==
    {"fs_sleep", "fs_stamp", "fs_toggle", "quake_test", "quake", "quake_links",
     "quake_nodes", "fs_wait"}

\* the positions of teardown_experiment while it drains the processes
InDrain ==
    {"teardown", "wtk_poll", "wtk_kill", "wait_iperf_clients", "wait_blocked",
     "clear_handles"}

\* the positions of teardown_experiment after the processes are drained
AfterDrain ==
    {"stop_net", "mn_clean", "reset_controller", "onos_sleep", "onos_poll", "rest_groups",
     "clear_collections"}

NoProcess == popens = <<>> /\ client_iperfs = <<>> /\ server_iperfs = <<>>

----------------------------------------------------------------------------
\* Properties of the fault schedule

\* C4: with n >= 1 data-path links, the planned list of changes has n + 1
\* entries: the first link in sorted order down with delay 0, then the other
\* links in sorted order down with delay TIME_BETWEEN_SEISMIC_EVENTS, then the
\* first link up with delay TIME_BETWEEN_SEISMIC_EVENTS.
C4_PlannedChanges ==
    pc \in InFaultSchedule =>
        LET ch == fs.data_path_changes
            n == Len(cloud_gateways)
        IN /\ n >= 1
           /\ Len(ch) = n + 1
           /\ {ch[i][1] : i \in 1..n} = Range(cloud_gateways)
           /\ \A i, j \in 1..n : i < j => NameRank(ch[i][1]) < NameRank(ch[j][1])
           /\ \A i \in 1..(n + 1) : ch[i][2] = cloud_switches[1]
           /\ ch[1][3] = "down" /\ ch[1][4] = 0
           /\ \A i \in 2..n :
                 ch[i][3] = "down" /\ ch[i][4] = TIME_BETWEEN_SEISMIC_EVENTS
           /\ ch[n + 1][1] = ch[1][1]
           /\ ch[n + 1][3] = "up" /\ ch[n + 1][4] = TIME_BETWEEN_SEISMIC_EVENTS

\* a plan of three changes was built of two gateways in unsorted order
C4_Witness ==
    /\ pc = "fs_sleep"
    /\ cloud_gateways = <<"g1", "g0">>
    /\ Len(fs.data_path_changes) = 3

\* C5: the data_path_changes run_experiment returns has one entry for every
\* planned change, in the order of the plan, with the gateway and the status of
\* that change, and its timestamps never decrease.
C5_RecordedChanges ==
    result.returned /\ pc = "teardown" =>
        LET out == result.data_path_changes
            ch == fs.data_path_changes
        IN /\ Len(out) = Len(ch)
           /\ \A i \in DOMAIN out : out[i][1] = ch[i][1] /\ out[i][2] = ch[i][3]
           /\ \A i, j \in DOMAIN out : i < j => out[i][3] <= out[j][3]

\* run_experiment returned the record of a plan of three changes
C5_Witness ==
    /\ result.returned
    /\ pc = "teardown"
    /\ Len(result.data_path_changes) = 3
    /\ result.data_path_changes[1][3] < result.data_path_changes[3][3]

InQuake == {"quake", "quake_links", "quake_nodes"}

\* the link between a and b is down in the emulation
IsDown(a, b) == {a, b} \in net.down

\* C6: in a trial whose fault schedule runs, the quake is applied once, right
\* after the link of the change at index 1 is toggled and before the change at
\* index 2: when it is over every link in failed_links is down and every node
\* in failed_nodes is stopped, no link of the emulation having been removed, and
\* the quake_start_time of the result is the time read at that point.
C6_QuakeOnceAfterSecondChange ==
    /\ fs.quakes <= 1
    /\ pc \in InQuake =>
          /\ fs.i = 1
          /\ Len(fs.output_dp_changes) = 2
    /\ pc = "quake" =>
          LET c == fs.data_path_changes[2]
          IN IsDown(c[1], c[2]) <=> c[3] = "down"
    /\ pc \in InQuake \ {"quake"} => fs.quakes = 1
    /\ pc \in InFaultSchedule
          /\ (fs.i = 0 \/ (fs.i = 1 /\ pc \notin {"quake_links", "quake_nodes"}))
          => fs.quakes = 0
    /\ pc \in InFaultSchedule \ InQuake /\ fs.i >= 2 => fs.quakes = 1
    /\ pc = "fs_wait" => fs.quakes = 1
    /\ fs.quakes = 1 /\ fs.i = 2 /\ Len(fs.output_dp_changes) = 2 =>
          /\ \A k \in DOMAIN fs.failed_links :
                IsDown(fs.failed_links[k][1], fs.failed_links[k][2])
          /\ Range(fs.failed_nodes) \subseteq net.stopped
          /\ Len(net.links) = TopoNumberOfEdges + 3
    /\ fs.quakes = 1 =>
          /\ fs.quake_time >= fs.output_dp_changes[2][3]
          /\ Len(fs.output_dp_changes) >= 3 =>
                fs.quake_time <= fs.output_dp_changes[3][3]
    /\ pc = "teardown" /\ result.returned =>
          /\ result.quake_start_time = fs.quake_time
          /\ result.quake_start_time >= result.data_path_changes[2][3]

\* the quake has failed two links and a node, and the change at index 2 is next
C6_Witness ==
    /\ pc = "fs_sleep"
    /\ fs.i = 2
    /\ fs.quakes = 1
    /\ Len(fs.failed_links) = 2
    /\ fs.failed_nodes = <<"a1">>
    /\ "a1" \in net.stopped

\* C7: from the toggle of the link of the change at index 1 to the last failure
\* of the quake the driver does not sleep: the clock stays at the timestamp of
\* that change and no other change is recorded.
C7_NoSleepWithinQuake ==
    /\ pc \in InQuake \/ (pc = "quake_test" /\ fs.i = 1) =>
          /\ ~fs.yielded
          /\ Len(fs.output_dp_changes) = 2
          /\ now = fs.output_dp_changes[2][3]
    /\ fs.quakes = 1 /\ fs.i = 2 /\ pc \in {"fs_sleep", "fs_wait"}
          /\ Len(fs.output_dp_changes) = 2 /\ fs.quake_time = now =>
          ~fs.yielded

\* the last node of the quake has just been stopped
C7_Witness ==
    /\ pc = "quake_nodes"
    /\ fs.failed_nodes = <<"a1">>
    /\ fs.k = 2
    /\ "a1" \in net.stopped
    /\ Len(fs.failed_links) = 2

----------------------------------------------------------------------------
\* Properties of the reset of the controller

\* C8: when teardown_experiment is past the reset of the controller, on the
\* ONOS branch and on the REST branch, the controller holds no host, no switch,
\* no group and no flow rule of the trial.
C8_ControllerPurged ==
    pc \in {"clear_collections", "trial_done"} =>
        ~ca.hosts /\ ~ca.switches /\ ~ca.groups /\ ~ca.flows

----------------------------------------------------------------------------
\* Properties of the expected counts

\* C9: with with_cloud true or false, when the convergence loop is left the
\* controller's host count is the number of emulated hosts without the NAT, its
\* switch count is the number of switches setup_topology added to the
\* emulation, and its link count is the number of edges of the topology plus
\* the servers plus the clouds, which is the number of links setup_topology
\* added without the one of the NAT.
C9_ExpectedIsBuilt ==
    pc \in AfterLoop =>
        /\ topology_adapter.nhosts = Len(net.hosts) - 1
        /\ topology_adapter.nswitches = Len(net.switches)
        /\ topology_adapter.nlinks =
              TopoNumberOfEdges + Len(TopoServers) + Len(TopoClouds)
        /\ topology_adapter.nlinks = Len(net.links) - 1

----------------------------------------------------------------------------
\* Properties of the unicast routes

\* C10: in the unicast arm, the batch installed for a subscriber is built of
\* the route made of the DPID of the server host followed by the DPIDs of the
\* topology's path from the original server to the subscriber; it has one rule
\* on every switch of that path between its endpoints, and every rule has
\* STATIC_PATH_FLOW_RULE_PRIORITY; the subscribers are served in their order,
\* one batch each.
C10_UnicastRules ==
    su.batch.kind = "unicast" =>
        LET s == su.batch.sub
            p == get_path(TopoLinks(topo_gateways), TopoServers[1], s)
            rules == su.batch.rules
        IN /\ su.use_unicast
           /\ s = su.subscribers[su.i - 1]
           /\ su.batch.route =
                 <<get_host_dpid(server)>> \o [k \in 1..Len(p) |-> get_node_dpid(p[k])]
           /\ \A k \in 2..(Len(p) - 1) :
                 Cardinality({r \in DOMAIN rules :
                                 rules[r].dpid = get_node_dpid(p[k])}) = 1
           /\ \A r \in DOMAIN rules :
                 rules[r].priority = STATIC_PATH_FLOW_RULE_PRIORITY

\* the route of the farther subscriber was installed: four switches on its way
C10_Witness ==
    /\ su.batch.kind = "unicast"
    /\ su.batch.sub = "h1"
    /\ Len(su.batch.rules) = 4
    /\ su.batch.ok

----------------------------------------------------------------------------
\* Properties of the probe routes

\* C11: with RideC, the batch installed for the i-th cloud gateway (counted
\* from 0) holds the rules of both directions: along the route made of the path
\* from the server to the gateway and the path from the gateway to the cloud,
\* matched on udp_src = PROBE_BASE_SRC_PORT + i and udp_dst = ECHO_SERVER_PORT,
\* and along the same route reversed, matched on the two ports swapped.
C11_ProbeRules ==
    su.batch.kind = "probe" =>
        LET i == su.j - 2
            gw == cloud_gateways[i + 1]
            r == su.batch.route
            rules == su.batch.rules
            n == Len(r) - 2
            port == PROBE_BASE_SRC_PORT + i
        IN /\ su.with_ride_c
           /\ su.batch.gw = gw
           /\ r = AdapterPath(server, gw) \o Tail(AdapterPath(gw, cloud))
           /\ r[1] = get_host_dpid(server)
           /\ r[Len(r)] = get_host_dpid(cloud)
           /\ n >= 1
           /\ Len(rules) = 2 * n
           /\ \A k \in 1..n :
                 /\ rules[k].dpid = r[k + 1]
                 /\ rules[k].out = r[k + 2]
                 /\ rules[k].matches = [udp_src |-> port, udp_dst |-> ECHO_SERVER_PORT]
                 /\ rules[n + k].dpid = r[Len(r) - k]
                 /\ rules[n + k].out = r[Len(r) - k - 1]
                 /\ rules[n + k].matches = [udp_src |-> ECHO_SERVER_PORT, udp_dst |-> port]

\* the batch of the second gateway was installed: four switches each way
C11_Witness ==
    /\ su.batch.kind = "probe"
    /\ su.j = 3
    /\ Len(su.batch.rules) = 8
    /\ su.batch.ok

----------------------------------------------------------------------------
\* Properties of the multicast address pool

\* the positions of setup_seismic_test up to the server's configuration, in
\* which the address pool is handed to RideD
BeforeServerConfig == {"unicast", "server_cfg"}

\* the 32-bit value of an address, less the part of its first octet
Low24(addr) == addr[2] * 65536 + addr[3] * 256 + addr[4]

\* C12: the multicast address pool has ntrees entries; the i-th (from 0) is
\* the address MULTICAST_ADDRESS_BASE + i with the source port
\* MULTICAST_ALERT_BASE_SRC_PORT + i, so no two entries have the same address
\* and no two have the same port.
C12_AddressPool ==
    pc \in BeforeServerConfig =>
        LET pool == su.mcast_address_pool
        IN /\ Len(pool) = su.ntrees
           /\ \A k \in DOMAIN pool :
                 /\ pool[k][1][1] = MULTICAST_ADDRESS_BASE[1]
                 /\ Low24(pool[k][1]) = Low24(MULTICAST_ADDRESS_BASE) + (k - 1)
                 /\ \A o \in 1..4 : pool[k][1][o] \in 0..255
                 /\ pool[k][2] = MULTICAST_ALERT_BASE_SRC_PORT + (k - 1)
           /\ \A k, l \in DOMAIN pool :
                 k # l => pool[k][1] # pool[l][1] /\ pool[k][2] # pool[l][2]

\* a pool of two entries is in use, the second address past the carry
C12_Witness ==
    /\ pc = "server_cfg"
    /\ su.ntrees = 2
    /\ Len(su.mcast_address_pool) = 2
    /\ su.mcast_address_pool[2][1] = <<224, 0, 1, 0>>

----------------------------------------------------------------------------
\* Properties of the draining of the processes

\* the loops and statements of teardown_experiment that wait for a process, in
\* the order of the text, each with the role of the handles it is written for
DrainOrder ==
    <<[as |-> "clients", role |-> "client"],
      [as |-> "server", role |-> "server"],
      [as |-> "cloud", role |-> "cloud"],
      [as |-> "iperf_clients", role |-> "iperf_client"],
      [as |-> "iperf_servers", role |-> "iperf_server"]>>

\* the place in DrainOrder of the handles of a role
RoleRank(role) == CHOOSE r \in DOMAIN DrainOrder : DrainOrder[r].role = role

\* C13: teardown_experiment waits for every handle of popens (and of the
\* iperf lists) exactly once, in the order clients, server, cloud (with_cloud),
\* iperf generators; each handle is waited for by the loop or statement written
\* for its role, so no client comes after the server; the handles are all
\* drained when they are dropped, and the controller is reset after that.
C13_DrainOrder ==
    /\ Len(td.drained_as) = Len(td.drained)
    /\ \A a \in DOMAIN td.drained :
          /\ \E r \in DOMAIN DrainOrder :
                /\ DrainOrder[r].as = td.drained_as[a]
                /\ DrainOrder[r].role = td.drained[a].role
          /\ \A b \in DOMAIN td.drained :
                /\ a < b => RoleRank(td.drained[a].role) <= RoleRank(td.drained[b].role)
                /\ a # b => td.drained[a] # td.drained[b]
    /\ pc \in InDrain =>
          \A a \in DOMAIN td.drained :
             td.drained[a] \in Range(popens) \cup Range(client_iperfs)
                               \cup Range(server_iperfs)
    /\ pc = "clear_handles" =>
          /\ \A k \in DOMAIN popens : popens[k] \in Range(td.drained)
          /\ \A k \in DOMAIN client_iperfs : client_iperfs[k] \in Range(td.drained)
          /\ \A k \in DOMAIN server_iperfs : server_iperfs[k] \in Range(td.drained)
    /\ pc \in AfterDrain =>
          /\ NoProcess
          /\ \E a \in DOMAIN td.drained : td.drained[a].role = "server"
          /\ with_cloud => \E a \in DOMAIN td.drained : td.drained[a].role = "cloud"
    /\ pc \in InDrain /\ popens # <<>> =>
          /\ popens[1].role = "server"
          /\ with_cloud => Len(popens) >= 2 /\ popens[2].role = "cloud"
          /\ \A k \in DOMAIN popens :
                k > client_popen_start_idx => popens[k].role = "client"

\* two clients, the server, the cloud and the generators were waited for, and
\* the controller is about to be reset
C13_Witness ==
    /\ pc = "reset_controller"
    /\ Len(td.drained) = 6
    /\ td.drained_as = <<"clients", "clients", "server", "cloud",
                         "iperf_clients", "iperf_servers">>

----------------------------------------------------------------------------
\* Properties of wait_then_kill

\* C14: wait_then_kill polls the process at most wait_time/timeout times; it
\* kills the process exactly when every one of these polls found it running
\* (so never after a poll that found it exited), and it returns an exit code,
\* never None.
C14_WaitThenKill ==
    /\ pc = "wtk_poll" => td.w_i <= WtkPolls
    /\ pc = "wtk_kill" => td.w_i = WtkPolls /\ td.ret = <<>>
    /\ td.ret # <<>> =>
          LET r == td.returned
          IN /\ r.ret # <<>>
             /\ r.ret[1] \in ExitCodes \cup {SIGKILL_RET}
             /\ r.nones + (IF r.killed THEN 0 ELSE 1) <= WtkPolls
             /\ r.killed <=> r.nones = WtkPolls
             /\ r.ret[1] = SIGKILL_RET => r.killed
    /\ td.ret = td.returned.ret
    /\ pc = "wtk_poll" /\ td.w_i = 0 /\ td.drained # <<>> /\ td.k > 1 => td.ret # <<>>

\* a process that was running at both polls was killed, and the call returned
\* the code of the signal
C14_Witness ==
    /\ td.returned.killed
    /\ td.returned.nones = WtkPolls
    /\ td.returned.ret = <<SIGKILL_RET>>
    /\ pc = "wtk_poll"

\* a process that had exited at the second poll was not killed
C14_WitnessExited ==
    /\ ~td.returned.killed
    /\ td.returned.nones = 1
    /\ td.returned.ret = <<1>>

----------------------------------------------------------------------------
\* Properties of the installation of static routes

\* the loop in which the batches of a kind are installed
LoopOf(kind) ==
    CASE kind = "unicast" -> "unicast"
      [] kind = "probe" -> "probe"
      [] kind = "cloud_gateway" -> "cloud_routes"

\* the pairs <<a[1], b[1]>>, <<a[1], b[2]>>, ..., <<a[2], b[1]>>, ...
RECURSIVE Pairs(_, _)
Pairs(a, b) ==
    IF a = <<>> THEN <<>>
    ELSE [k \in 1..Len(b) |-> <<a[1], b[k]>>] \o Pairs(Tail(a), b)

\* C15: a false result of install_flow_rules never aborts the trial: whatever
\* the results of the batches are, the driver stays in the loop at hand, every
\* batch of the loop is attempted (one per subscriber, one per gateway, one per
\* subscriber and gateway), the server, the cloud and the clients are started,
\* and the fault schedule runs to its end.
C15_FalseInstallGoesOn ==
    /\ su.batch # NoBatch /\ ~su.batch.ok =>
          error = "None" /\ pc = LoopOf(su.batch.kind) /\ su.failed
    /\ su.failed => ~NoProcess \/ pc \in {"unicast", "server_cfg", "probe", "launch_server"}
    /\ pc = "unicast" /\ su.i > Len(su.subscribers) =>
          su.batches = [k \in 1..Len(su.subscribers) |->
                           <<"unicast", su.subscribers[k], "None">>]
    /\ pc = "probe" /\ su.j > Len(cloud_gateways) =>
          su.batches = [k \in 1..Len(cloud_gateways) |->
                           <<"probe", "None", cloud_gateways[k]>>]
    /\ pc = "cloud_routes" /\ su.i > Len(su.subscribers) =>
          su.batches = [k \in 1..(Len(su.subscribers) * Len(cloud_gateways)) |->
                           <<"cloud_gateway",
                             Pairs(su.subscribers, cloud_gateways)[k][1],
                             Pairs(su.subscribers, cloud_gateways)[k][2]>>]
    /\ pc \in {"fs_begin"} \cup InFaultSchedule =>
          /\ su.clients = {}
          /\ popens # <<>> /\ popens[1].role = "server"
          /\ with_cloud => Len(popens) >= 2 /\ popens[2].role = "cloud"
    /\ pc = "fs_wait" => fs.i = Len(fs.data_path_changes)

\* every batch that had a rule was refused, and the trial went on to start the
\* server, the cloud and two clients and to run the fault schedule to its end
C15_Witness ==
    /\ pc = "fs_wait"
    /\ su.failed
    /\ ~ca.flows
    /\ Len(popens) = 4
    /\ fs.quakes = 1
    /\ Len(fs.data_path_changes) >= 2

----------------------------------------------------------------------------
\* Properties of the teardown of the emulation

C16_WitnessFailure ==
    /\ td.stop_error
    /\ pc = "mn_clean"
    /\ net.started
    /\ net.down # {}

----------------------------------------------------------------------------
\* Properties of the comparison modes

\* C17: with the comparison 'oracle', whatever ntrees is, setup_seismic_test
\* raises NotImplementedError and goes into no other arm: it installs no
\* unicast route and starts no server, cloud or client.
C17_OracleRaises ==
    su.comparison = "oracle" =>
        /\ error = "NotImplementedError"
        /\ pc = "raised"
        /\ su.batch = NoBatch
        /\ ~su.use_unicast
        /\ popens = <<>>

----------------------------------------------------------------------------
\* Properties of setup_topology

\* C18: with_cloud false, setup_topology adds exactly one host for each cloud
\* of the topology, no host name twice, and no cloud switch.
C18_OneHostPerCloud ==
    ~with_cloud /\ net.exists =>
        /\ cloud_switches = <<>>
        /\ \A c \in Range(TopoClouds) :
              Cardinality({k \in DOMAIN net.hosts : net.hosts[k] = c}) = 1
        /\ \A a, b \in DOMAIN net.hosts : a # b => net.hosts[a] # net.hosts[b]

----------------------------------------------------------------------------
\* Properties of the routes from the cloud gateways to the subscribers

\* C20: in a setup that gets through the loop of lines 809-826, one batch of
\* static rules is installed for every subscriber and every cloud gateway, the
\* subscribers in their order and the gateways in theirs for each of them; the
\* batch has one rule on every switch of the topology's path from the gateway
\* to the subscriber, the gateway included, each matched on ipv4_src = the IP of
\* the cloud and ipv4_dst = the IP of the subscriber; when the loop ends the
\* batches are |subscribers| x |gateways|, no pair twice.
C20_CloudGatewayRoutes ==
    /\ su.batch.kind = "cloud_gateway" =>
          LET b == su.batch
              p == get_path(TopoLinks(topo_gateways), b.gw, b.sub)
          IN /\ pc = "cloud_routes"
             /\ p[1] = b.gw /\ p[Len(p)] = b.sub
             /\ <<"cloud_gateway", b.sub, b.gw>> = su.batches[Len(su.batches)]
             /\ Len(b.rules) = Len(p) - 1
             /\ \A k \in DOMAIN b.rules :
                   /\ b.rules[k].dpid = get_node_dpid(p[k])
                   /\ b.rules[k].out = get_node_dpid(p[k + 1])
                   /\ b.rules[k].matches = [ipv4_dst |-> <<"IP", b.sub>>,
                                            ipv4_src |-> <<"IP", cloud>>]
                   /\ b.rules[k].priority = STATIC_PATH_FLOW_RULE_PRIORITY
    /\ pc = "cloud_routes" =>
          LET all == Pairs(su.subscribers, cloud_gateways)
          IN /\ Len(su.batches) <= Len(all)
             /\ \A k \in DOMAIN su.batches :
                   su.batches[k] = <<"cloud_gateway", all[k][1], all[k][2]>>
             /\ \A k, l \in DOMAIN su.batches : k # l => su.batches[k] # su.batches[l]
             /\ su.i > Len(su.subscribers) =>
                   /\ Len(su.batches) = Len(su.subscribers) * Len(cloud_gateways)
                   /\ \A x \in DOMAIN su.subscribers, y \in DOMAIN cloud_gateways :
                         Cardinality({k \in DOMAIN su.batches :
                            su.batches[k] = <<"cloud_gateway", su.subscribers[x],
                                              cloud_gateways[y]>>}) = 1

\* the loop has ended with two subscribers and two gateways: four batches
C20_Witness ==
    /\ pc = "cloud_routes"
    /\ su.i > Len(su.subscribers)
    /\ Len(su.subscribers) = 2
    /\ Len(cloud_gateways) = 2
    /\ Len(su.batches) = 4
    /\ su.batch.kind = "cloud_gateway"
    /\ Len(su.batch.rules) >= 3

----------------------------------------------------------------------------
\* Properties of the DPID conversions

----------------------------------------------------------------------------
\* Properties of the order of the fault schedule

\* the time change i of the plan ch is due, counted from the start of the plan
RECURSIVE Offset(_, _)
Offset(ch, i) == IF i = 0 THEN 0 ELSE Offset(ch, i - 1) + ch[i][4]

\* the gateway of smallest name among gws
FirstByName(gws) ==
    CHOOSE g \in Range(gws) : \A h \in Range(gws) : NameRank(g) <= NameRank(h)

\* C22: whatever the order of self.cloud_gateways, the plan of the fault
\* schedule fails first, with delay 0, and recovers last the data path of the
\* gateway of smallest name, and fails the other gateways in ascending order
\* of their names, each TIME_BETWEEN_SEISMIC_EVENTS after the one before; with
\* the gateways g0 and g1, in either order, the changes are g0 down at offset 0,
\* g1 down at offset T and g0 up at offset 2T, and the times recorded for them
\* are that far from the first one.
C22_SmallestNameFirst ==
    pc \in InFaultSchedule =>
        LET ch == fs.data_path_changes
            out == fs.output_dp_changes
            n == Len(cloud_gateways)
            T == TIME_BETWEEN_SEISMIC_EVENTS
        IN /\ ch[1][1] = FirstByName(cloud_gateways)
           /\ ch[1][3] = "down" /\ Offset(ch, 1) = 0
           /\ ch[Len(ch)][1] = FirstByName(cloud_gateways)
           /\ ch[Len(ch)][3] = "up" /\ Offset(ch, Len(ch)) = n * T
           /\ \A i \in 2..n :
                 /\ NameRank(ch[i - 1][1]) < NameRank(ch[i][1])
                 /\ ch[i][3] = "down" /\ Offset(ch, i) = (i - 1) * T
           /\ Range(cloud_gateways) = {"g0", "g1"} =>
                 /\ [i \in DOMAIN ch |-> <<ch[i][1], ch[i][3], Offset(ch, i)>>]
                      = << <<"g0", "down", 0>>, <<"g1", "down", T>>,
                           <<"g0", "up", 2 * T>> >>
                 /\ \A i \in DOMAIN out :
                       out[i] = <<ch[i][1], ch[i][3], out[1][3] + Offset(ch, i)>>

\* the gateways are listed with g1 before g0 and the three changes are recorded
C22_Witness ==
    /\ pc = "fs_wait"
    /\ cloud_gateways = <<"g1", "g0">>
    /\ Len(fs.output_dp_changes) = 3
    /\ fs.output_dp_changes[3][1] = "g0"

----------------------------------------------------------------------------
\* Properties of the retries of the convergence loop

\* the counts last queried are the three expected ones
SeenAsExpected ==
    /\ conv.n_sdn_hosts = conv.expected_nhosts
    /\ conv.n_sdn_links = conv.expected_nlinks
    /\ conv.n_sdn_switches = conv.expected_nswitches

\* what a step taken inside the loop does to the position of the driver
LoopStep ==
    pc \in InLoop =>
        /\ error' = "None"
        /\ pc' \in InLoop \cup {"traffic_generators"}
        /\ (pc = "loop_test") =>
              (pc' = IF SeenAsExpected THEN "traffic_generators" ELSE "conv_query")
        /\ (pc \in {"conv_compare", "conv_reping"}) =>
              (SeenAsExpected' = SeenAsExpected)
        /\ (pc = "conv_compare") => (conv.success' = SeenAsExpected)

\* C23: the convergence loop has no bound on its iterations and does not raise
\* or give up on a mismatch: a step taken inside the loop leaves no exception
\* and stays in the loop or goes on to setup_traffic_generators; the test of
\* the loop goes on to another query whenever one of the three counts last
\* queried differs from the expected one, however many iterations were made,
\* and leaves the loop exactly when all three are as expected, which they
\* still are when the iteration that queried them reaches the test.
C23_RetriesWithoutBound ==
    [][LoopStep]_vars

\* after MaxTries iterations with a mismatch the test has sent the driver to
\* one more query
C23_Witness ==
    /\ pc = "conv_query"
    /\ conv.ntries = MaxTries + 1
    /\ ~conv.success
    /\ ~SeenAsExpected

----------------------------------------------------------------------------
\* make_scale_config_entry
\*
\* A Python string is a sequence of one-character strings; a scalar value is a
\* record of its kind ("str", "true", "false", "int") and its characters; a
\* dict is a function of its keys.

DoubleQuote == "\""

Backslash == "\\"

SingleQuote == "'"

Digits == {"0", "1", "2", "3", "4", "5", "6", "7", "8", "9"}

\* the characters of the strings handed to the function
EntryChars == {"a", DoubleQuote, Backslash}

\* the strings of at most n characters
StringsUpTo(n) == UNION {[1..k -> EntryChars] : k \in 0..n}

StrValue(x) == [kind |-> "str", s |-> x]

\* the key "class"
ClassKey == <<"c", "l", "a", "s", "s">>

\* some key of kwargs
OtherKey == <<"k">>

\* the values of the keyword arguments: strings, True and 7
EntryValues ==
    {StrValue(x) : x \in StringsUpTo(MaxNameLen)}
    \cup {[kind |-> "true", s |-> <<>>], [kind |-> "int", s |-> <<"7">>]}

\* the keyword arguments: none, one, or two of which one is named "class"
EntryKwargs ==
    {<<>>}
    \cup {OtherKey :> v : v \in EntryValues}
    \cup {ClassKey :> v : v \in EntryValues}
    \cup {(OtherKey :> v) @@ (ClassKey :> StrValue(<<"a">>)) : v \in EntryValues}

\* json.dumps of a string: " and \ get a backslash in front, quotes around
RECURSIVE json_escape(_)
json_escape(x) ==
    IF x = <<>> THEN <<>>
    ELSE (IF Head(x) \in {DoubleQuote, Backslash} THEN <<Backslash, Head(x)>>
          ELSE <<Head(x)>>) \o json_escape(Tail(x))

json_string(x) == <<DoubleQuote>> \o json_escape(x) \o <<DoubleQuote>>

\* json.dumps of a scalar
json_scalar(v) ==
    CASE v.kind = "str" -> json_string(v.s)
      [] v.kind = "true" -> <<"t", "r", "u", "e">>
      [] v.kind = "false" -> <<"f", "a", "l", "s", "e">>
      [] v.kind = "int" -> v.s

\* json.dumps of the dict d, its keys iterated in the order keys
RECURSIVE json_members(_, _)
json_members(d, keys) ==
    IF keys = <<>> THEN <<>>
    ELSE json_string(Head(keys)) \o <<":", " ">> \o json_scalar(d[Head(keys)])
         \o (IF Len(keys) > 1 THEN <<",", " ">> ELSE <<>>)
         \o json_members(d, Tail(keys))

\* json.dumps({name: d})
json_dumps(name, d, keys) ==
    <<"{">> \o json_string(name) \o <<":", " ">>
    \o <<"{">> \o json_members(d, keys) \o <<"}">> \o <<"}">>

\* a text handed on as it is
replace_nothing(text) == text

\* text.replace('"', r'\"')
RECURSIVE replace_quotes(_)
replace_quotes(text) ==
    IF text = <<>> THEN <<>>
    ELSE (IF Head(text) = DoubleQuote THEN <<Backslash, DoubleQuote>>
          ELSE <<Head(text)>>) \o replace_quotes(Tail(text))

\* d = dict(**kwargs); d['class'] = class_path
entry_dict(class_path, kwargs) ==
    [k \in DOMAIN kwargs \cup {ClassKey} |->
        IF k = ClassKey THEN StrValue(class_path) ELSE kwargs[k]]

\* "'%s' " % json.dumps({name: d}).replace('"', r'\"'), the keys of d being
\* iterated in the order keys
make_scale_config_entry(class_path, name, kwargs, keys) ==
    <<SingleQuote>>
    \o replace_quotes(json_dumps(name, entry_dict(class_path, kwargs), keys))
    \o <<SingleQuote, " ">>

\* ---- json.loads, for a dict of dicts of scalars ----

At(t, i) == IF i \in DOMAIN t THEN t[i] ELSE "EOF"

NoParse == [ok |-> FALSE, v |-> <<>>, next |-> 0]

\* the first position from i on that holds no space
RECURSIVE SkipSpace(_, _)
SkipSpace(t, i) == IF At(t, i) = " " THEN SkipSpace(t, i + 1) ELSE i

\* the character an escape sequence stands for; "u" and four digits is left out
Escapes ==
    (DoubleQuote :> DoubleQuote) @@ (Backslash :> Backslash) @@ ("/" :> "/")
    @@ ("n" :> "\n") @@ ("t" :> "\t") @@ ("r" :> "\r") @@ ("f" :> "\f")

\* the string whose characters start at i, after its opening quote
RECURSIVE ScanString(_, _, _)
ScanString(t, i, acc) ==
    IF i > Len(t) THEN NoParse
    ELSE IF t[i] = DoubleQuote THEN [ok |-> TRUE, v |-> acc, next |-> i + 1]
    ELSE IF t[i] = Backslash
         THEN IF At(t, i + 1) \in DOMAIN Escapes
              THEN ScanString(t, i + 2, Append(acc, Escapes[t[i + 1]]))
              ELSE NoParse
    ELSE ScanString(t, i + 1, Append(acc, t[i]))

RECURSIVE ScanDigits(_, _, _)
ScanDigits(t, i, acc) ==
    IF At(t, i) \in Digits THEN ScanDigits(t, i + 1, Append(acc, t[i]))
    ELSE [ok |-> acc # <<>>, v |-> [kind |-> "int", s |-> acc], next |-> i]

\* the characters of w are in t from position i on
StartsWith(t, i, w) ==
    /\ i + Len(w) - 1 <= Len(t)
    /\ SubSeq(t, i, i + Len(w) - 1) = w

\* the scalar that starts at i
ParseScalar(t, i) ==
    IF At(t, i) = DoubleQuote
    THEN LET r == ScanString(t, i + 1, <<>>)
         IN [r EXCEPT !.v = StrValue(r.v)]
    ELSE IF StartsWith(t, i, <<"t", "r", "u", "e">>)
    THEN [ok |-> TRUE, v |-> [kind |-> "true", s |-> <<>>], next |-> i + 4]
    ELSE IF StartsWith(t, i, <<"f", "a", "l", "s", "e">>)
    THEN [ok |-> TRUE, v |-> [kind |-> "false", s |-> <<>>], next |-> i + 5]
    ELSE ScanDigits(t, i, <<>>)

RECURSIVE ParseMembers(_, _, _, _)
RECURSIVE ParseObject(_, _, _)

\* the members of an object from position i on, acc being the ones read; the
\* members of the outer object (depth 1) are objects, those of an inner one
\* scalars; a key read twice keeps its last value
ParseMembers(t, i, acc, depth) ==
    IF At(t, i) # DoubleQuote THEN NoParse
    ELSE LET key == ScanString(t, i + 1, <<>>)
             colon == SkipSpace(t, key.next)
             val == IF depth = 1 THEN ParseObject(t, SkipSpace(t, colon + 1), 2)
                    ELSE ParseScalar(t, SkipSpace(t, colon + 1))
             after == SkipSpace(t, val.next)
             read == (key.v :> val.v) @@ acc
         IN IF ~key.ok \/ At(t, colon) # ":" THEN NoParse
            ELSE IF ~val.ok THEN NoParse
            ELSE IF At(t, after) = "}" THEN [ok |-> TRUE, v |-> read, next |-> after + 1]
            ELSE IF At(t, after) = ","
                 THEN ParseMembers(t, SkipSpace(t, after + 1), read, depth)
            ELSE NoParse

\* the object that starts at i
ParseObject(t, i, depth) ==
    IF At(t, i) # "{" THEN NoParse
    ELSE LET j == SkipSpace(t, i + 1)
         IN IF At(t, j) = "}" THEN [ok |-> TRUE, v |-> <<>>, next |-> j + 1]
            ELSE ParseMembers(t, j, <<>>, depth)

\* json.loads(t): ok tells whether t is the text of a dict of dicts of scalars
json_loads(t) ==
    LET r == ParseObject(t, SkipSpace(t, 1), 1)
    IN IF r.ok /\ SkipSpace(t, r.next) = Len(t) + 1 THEN [ok |-> TRUE, v |-> r.v]
       ELSE [ok |-> FALSE, v |-> <<>>]

\* ---- the specification of one call ----

InitEntry ==
    /\ pc = "make_scale_config_entry"
    /\ error = "None"
    /\ with_cloud = TRUE
    /\ topology_adapter_type = "onos"
    /\ topo_gateways = <<>>
    /\ hosts = <<>>
    /\ switches = <<>>
    /\ cloud_gateways = <<>>
    /\ cloud_switches = <<>>
    /\ links = <<>>
    /\ net = NoNet
    /\ controller = "None"
    /\ nat = "None"
    /\ server_switch = "None"
    /\ server = "None"
    /\ cloud = "None"
    /\ topology_adapter = NoAdapter
    /\ popens = <<>>
    /\ client_iperfs = <<>>
    /\ server_iperfs = <<>>
    /\ conv = NoConv
    /\ su = NoSu
    /\ fs = NoFs
    /\ td = NoTd
    /\ now = 0
    /\ ca = [hosts |-> FALSE, switches |-> FALSE, flows |-> FALSE, groups |-> FALSE]
    /\ result = NoResult
    /\ \E class_path \in {<<"a">>, <<"a", DoubleQuote>>},
          name \in StringsUpTo(MaxNameLen),
          kwargs \in EntryKwargs :
          sc = [class_path |-> class_path, name |-> name, kwargs |-> kwargs,
                out |-> <<>>]
    /\ env = NoEnv
    /\ cli = NoCli

\* the call returns; the order in which json.dumps meets the keys of d is the
\* dict's own
MakeScaleConfigEntry ==
    /\ pc = "make_scale_config_entry"
    /\ \E keys \in Orderings(DOMAIN entry_dict(sc.class_path, sc.kwargs)) :
          sc' = [sc EXCEPT !.out = make_scale_config_entry(sc.class_path, sc.name,
                                                           sc.kwargs, keys)]
    /\ pc' = "entry_returned"
    /\ UNCHANGED <<env, cli, error, config_vars, self_lists, self_nodes, net,
                   topology_adapter, proc_vars, conv, su, fs, td, now, ca, result>>

NextEntry == MakeScaleConfigEntry

SpecEntry == InitEntry /\ [][NextEntry]_vars

\* ---- properties ----

\* what is between the single quote in front and the single quote and the
\* space at the end
Unwrapped(out) == SubSeq(out, 2, Len(out) - 2)

\* the text without its backslashes
WithoutBackslashes(t) == SelectSeq(t, LAMBDA c : c # Backslash)

\* the text with every \" turned back into "
RECURSIVE Unescaped(_)
Unescaped(t) ==
    IF t = <<>> THEN <<>>
    ELSE IF Len(t) >= 2 /\ t[1] = Backslash /\ t[2] = DoubleQuote
         THEN <<DoubleQuote>> \o Unescaped(SubSeq(t, 3, Len(t)))
    ELSE <<Head(t)>> \o Unescaped(Tail(t))

\* {name: kwargs plus 'class': class_path}
ExpectedEntry == sc.name :> entry_dict(sc.class_path, sc.kwargs)

\* the string has neither a double quote nor a backslash
IsPlain(x) == \A i \in DOMAIN x : x[i] \notin {DoubleQuote, Backslash}

\* no string of the arguments has a double quote or a backslash
PlainArguments ==
    /\ IsPlain(sc.class_path) /\ IsPlain(sc.name)
    /\ \A k \in DOMAIN sc.kwargs : IsPlain(k) /\ IsPlain(sc.kwargs[k].s)

\* the result is wrapped in single quotes, a space after them, and every
\* double quote inside has a backslash in front
WrappedAndEscaped(out) ==
    /\ Len(out) >= 3
    /\ out[1] = SingleQuote /\ out[Len(out) - 1] = SingleQuote /\ out[Len(out)] = " "
    /\ \A i \in 2..(Len(out) - 2) : out[i] = DoubleQuote => out[i - 1] = Backslash

----------------------------------------------------------------------------
\* Properties of the pace of the convergence loop

\* C26: an iteration of the convergence loop sleeps 2 s when the three counts
\* it queried are the expected ones and 10 s otherwise, and it runs ping_hosts
\* again exactly when one of the counts differs and the iteration is the 5th,
\* 10th, ... of the loop; no other iteration does.
C26_SleepAndRePing ==
    /\ pc = "conv_reping" =>
          /\ conv.slept = IF SeenAsExpected THEN 2 ELSE 10
          /\ conv.ntries >= 1
    /\ pc = "loop_test" /\ conv.ntries > 1 =>
          LET iteration == conv.ntries - 1
          IN /\ conv.slept = IF SeenAsExpected THEN 2 ELSE 10
             /\ conv.pinged <=> (~SeenAsExpected /\ iteration % 5 = 0)
             /\ conv.pinged => net.arp

\* the fifth iteration has seen a mismatch and pinged the hosts again
C26_Witness ==
    /\ pc = "loop_test"
    /\ conv.ntries = 6
    /\ conv.pinged
    /\ conv.slept = 10

\* the fifth iteration has seen the expected counts and pinged no host
C26_WitnessAgreed ==
    /\ pc = "loop_test"
    /\ conv.ntries = 6
    /\ ~conv.pinged
    /\ conv.slept = 2

----------------------------------------------------------------------------
\* Properties of the time recorded for a change

\* the number of changes of the plan whose configLinkStatus has been called
AppliedToggles ==
    IF pc \in {"quake_test"} \cup InQuake THEN fs.i + 1 ELSE fs.i

\* C27: the time of a change is recorded only after its link is toggled: the
\* record never has more entries than links have been toggled, so no recorded
\* time is earlier than the toggle it stands for.
C27_StampAfterToggle ==
    pc \in InFaultSchedule => Len(fs.output_dp_changes) <= AppliedToggles

----------------------------------------------------------------------------
\* Properties of the end of the drain

\* the steps of teardown_experiment that drain the processes
DrainStep ==
    TeardownBegin \/ WtkPoll \/ WtkKill \/ WaitIperfClient \/ ClearHandles

\* C28: the drain of teardown_experiment ends whatever the children do: at
\* every position of the drain the driver has a step to take, no wait being one
\* that only the child can end, and a handle is polled at most twice before it
\* is killed.
C28_DrainNeverBlocks ==
    pc \in InDrain =>
        /\ ENABLED DrainStep
        /\ td.w_i <= WtkPolls

----------------------------------------------------------------------------
\* Properties of the collections between two trials

\* the collections are as __init__ leaves them
CollectionsCleared ==
    /\ hosts = <<>> /\ switches = <<>> /\ cloud_gateways = <<>>
    /\ cloud_switches = <<>> /\ links = <<>>
    /\ popens = <<>> /\ client_iperfs = <<>> /\ server_iperfs = <<>>
    /\ net = NoNet
    /\ controller = "None" /\ nat = "None" /\ server_switch = "None"

\* no entry of the list is in it twice
NoRepeat(l) == \A i, j \in DOMAIN l : i # j => l[i] # l[j]

\* C29: when teardown_experiment has returned, and so when the next trial
\* begins, hosts, switches, cloud_gateways, cloud_switches, links, popens,
\* client_iperfs and server_iperfs are empty and net, controller, nat and
\* server_switch are None; in every trial, the first or a later one, each list
\* is empty or holds what the setup of that one trial put into it, nothing
\* twice.
C29_NoAccumulation ==
    /\ pc \in {"trial_done", "setup_topology"} => CollectionsCleared
    /\ hosts \in {<<>>, TopoHosts}
    /\ switches \in {<<>>, TopoSwitches}
    /\ cloud_gateways \in {<<>>, topo_gateways}
    /\ cloud_switches \in {<<>>, IF with_cloud THEN <<"x0">> ELSE <<>>}
    /\ links \in {<<>>, TopoLinks(topo_gateways)}
    /\ NoRepeat(popens) /\ NoRepeat(client_iperfs) /\ NoRepeat(server_iperfs)
    /\ Len(client_iperfs) <= MaxGenerators /\ Len(server_iperfs) <= MaxGenerators
    /\ Len(popens) <= 2 + Len(net.hosts)

\* setup_topology has filled the lists in a trial that is not the first: the
\* adapter of the trial before is still there
C29_Witness ==
    /\ pc = "start_network"
    /\ topology_adapter.exists
    /\ hosts = TopoHosts
    /\ Len(cloud_gateways) = 2
    /\ links = TopoLinks(topo_gateways)
    /\ popens = <<>>

----------------------------------------------------------------------------
\* Properties of the processes setup_seismic_test starts

\* the handles in front of those of the clients
HandlesBeforeClients == IF with_cloud THEN 2 ELSE 1

\* C30: while setup_seismic_test launches the clients and when it has launched
\* them all, popens holds the handle of the server first, then the handle of
\* the cloud if and only if with_cloud, then one handle for every client
\* launched so far: each on a host of sensors or subscribers, no host twice,
\* with the publisher configuration exactly when the host is a sensor and the
\* subscriber configuration exactly when it is a subscriber (both for a host
\* that is both); when the loop is over the client handles are as many as the
\* hosts of sensors and subscribers together, one on each.
C30_OneClientPerHost ==
    pc = "launch_clients" =>
        LET first == HandlesBeforeClients
            all == su.sensors \cup Range(su.subscribers)
        IN /\ Len(popens) = first + Len(su.launched)
           /\ popens[1] = [role |-> "server", host |-> server, port |-> 0]
           /\ with_cloud => popens[2] = [role |-> "cloud", host |-> cloud, port |-> 0]
           /\ \A k \in DOMAIN popens : popens[k].role = "cloud" => with_cloud /\ k = 2
           /\ \A k \in DOMAIN su.launched :
                 LET c == su.launched[k]
                 IN /\ popens[first + k] = [role |-> "client", host |-> c.host, port |-> 0]
                    /\ c.host \in all
                    /\ c.pubs_cfg <=> c.host \in su.sensors
                    /\ c.subs_cfg <=> c.host \in Range(su.subscribers)
                    /\ \A l \in DOMAIN su.launched : l # k => su.launched[l].host # c.host
           /\ su.clients = {} =>
                 /\ Len(su.launched) = Cardinality(all)
                 /\ {su.launched[k].host : k \in DOMAIN su.launched} = all

\* all clients are launched, one of them both sensor and subscriber, another
\* a sensor alone
C30_Witness ==
    /\ pc = "launch_clients"
    /\ su.clients = {}
    /\ with_cloud
    /\ Len(popens) = 4
    /\ \E k \in DOMAIN su.launched :
          su.launched[k].pubs_cfg /\ su.launched[k].subs_cfg
    /\ \E k \in DOMAIN su.launched :
          su.launched[k].pubs_cfg /\ ~su.launched[k].subs_cfg

\* all clients are launched in a trial without the cloud
C30_WitnessWithoutCloud ==
    /\ pc = "launch_clients"
    /\ su.clients = {}
    /\ ~with_cloud
    /\ Len(popens) = 3

----------------------------------------------------------------------------
\* Properties of the traffic generators

\* C31: as long as the handles of the traffic generators are kept, there are
\* as many iperf clients as iperf servers; the client and the server of the
\* generator of index i (from 0) have the port IPERF_BASE_PORT + i, the clients
\* running on the generators and the servers on the server host; the ports of
\* two generators differ and together they are IPERF_BASE_PORT ..
\* IPERF_BASE_PORT + n - 1.
C31_IperfPorts ==
    LET n == Len(client_iperfs)
    IN /\ Len(server_iperfs) = n
       /\ \A k \in 1..n :
             /\ client_iperfs[k].role = "iperf_client"
             /\ server_iperfs[k].role = "iperf_server"
             /\ server_iperfs[k].host = server
             /\ client_iperfs[k].port = IPERF_BASE_PORT + (k - 1)
             /\ server_iperfs[k].port = client_iperfs[k].port
       /\ \A k, l \in 1..n : k # l => client_iperfs[k].port # client_iperfs[l].port
       /\ {client_iperfs[k].port : k \in 1..n}
             = IPERF_BASE_PORT .. (IPERF_BASE_PORT + n - 1)

\* two generators have been started
C31_Witness ==
    /\ pc = "setup_seismic_test"
    /\ Len(client_iperfs) = 2
    /\ Len(server_iperfs) = 2

----------------------------------------------------------------------------
\* Properties of the wait for the controller's reset

\* the positions of the reset of the controller
InReset == {"reset_controller", "onos_sleep", "onos_poll", "rest_groups"}

\* C32: the reset of the controller raises nothing and is left only when its
\* test has passed. With ONOS every poll of the host listing comes after a
\* sleep of 10 s, and the driver goes on only when the listing is empty, no
\* flow rule being removed through the REST API; otherwise, with an adapter,
\* remove_all_flow_rules is called once and remove_all_groups at least once,
\* and the driver goes on only when get_groups has returned no group.
C32_ResetWaitsForEmptiness ==
    /\ pc \in InReset => error = "None"
    /\ pc = "onos_poll" => td.waited = 10 /\ topology_adapter_type = "onos"
    /\ pc = "onos_sleep" => td.waited = 0
    /\ pc = "rest_groups" =>
          /\ topology_adapter_type # "onos" /\ topology_adapter.exists
          /\ td.flow_removals = 1
          /\ td.removed_groups => ca.groups
    /\ pc = "clear_collections" =>
          IF topology_adapter_type = "onos"
          THEN ~ca.hosts /\ td.flow_removals = 0 /\ td.waited = 0
          ELSE topology_adapter.exists =>
                  /\ td.flow_removals = 1
                  /\ td.removed_groups
                  /\ ~ca.groups

\* the listing of ONOS is about to be read again, the hosts still being there
C32_Witness ==
    /\ pc = "onos_poll"
    /\ ca.hosts
    /\ td.waited = 10
    /\ td.drained # <<>>

\* the groups are being removed again through the REST API
C32_WitnessRest ==
    /\ pc = "rest_groups"
    /\ td.removed_groups
    /\ ca.groups

----------------------------------------------------------------------------
\* setup_seismic_test: the environment of the child processes
\*
\* An environment is a function of the names of its variables; a path is the
\* sequence of its directories and of the colons between them.

\* os.path.dirname(os.path.abspath(__file__))
ride_dir == "/ride"

\* what a PYTHONPATH of the caller may be made of
PathTokens == {"/a", "/b", ":"}

PathsUpTo(n) == UNION {[1..k -> PathTokens] : k \in 0..n}

\* os.environ: HOME, and PYTHONPATH or not
CallerEnvironments ==
    {("HOME" :> <<"/root">>)}
    \cup {("HOME" :> <<"/root">>) @@ ("PYTHONPATH" :> path) :
             path \in PathsUpTo(MaxPathLen)}

\* env = os.environ.copy() and the PYTHONPATH of lines 609-612
child_env(os_environ) ==
    IF "PYTHONPATH" \notin DOMAIN os_environ
    THEN ("PYTHONPATH" :> <<ride_dir, ":">>) @@ os_environ
    ELSE ("PYTHONPATH" :> os_environ["PYTHONPATH"] \o <<":", ride_dir>>) @@ os_environ

\* path.split(':'): the entries of the path, the empty ones too
RECURSIVE split(_)
split(path) ==
    IF \A i \in DOMAIN path : path[i] # ":" THEN <<path>>
    ELSE LET c == CHOOSE i \in DOMAIN path :
                     path[i] = ":" /\ \A j \in 1..(i - 1) : path[j] # ":"
         IN <<SubSeq(path, 1, c - 1)>> \o split(SubSeq(path, c + 1, Len(path)))

InitEnv ==
    /\ pc = "setup_seismic_test_env"
    /\ error = "None"
    /\ with_cloud = TRUE
    /\ topology_adapter_type = "onos"
    /\ topo_gateways = <<>>
    /\ hosts = <<>>
    /\ switches = <<>>
    /\ cloud_gateways = <<>>
    /\ cloud_switches = <<>>
    /\ links = <<>>
    /\ net = NoNet
    /\ controller = "None"
    /\ nat = "None"
    /\ server_switch = "None"
    /\ server = "None"
    /\ cloud = "None"
    /\ topology_adapter = NoAdapter
    /\ popens = <<>>
    /\ client_iperfs = <<>>
    /\ server_iperfs = <<>>
    /\ conv = NoConv
    /\ su = NoSu
    /\ fs = NoFs
    /\ td = NoTd
    /\ now = 0
    /\ ca = [hosts |-> FALSE, switches |-> FALSE, flows |-> FALSE, groups |-> FALSE]
    /\ result = NoResult
    /\ sc = NoCall
    /\ \E e \in CallerEnvironments : env = [os_environ |-> e, child |-> <<>>]
    /\ cli = NoCli

\* lines 607-612
BuildEnvironment ==
    /\ pc = "setup_seismic_test_env"
    /\ env' = [env EXCEPT !.child = child_env(env.os_environ)]
    /\ pc' = "env_built"
    /\ UNCHANGED <<sc, cli, error, config_vars, self_lists, self_nodes, net,
                   topology_adapter, proc_vars, conv, su, fs, td, now, ca, result>>

NextEnv == BuildEnvironment

SpecEnv == InitEnv /\ [][NextEnv]_vars

\* the directories a PYTHONPATH adds to the module search path, in their order
SearchPath(e) == IF "PYTHONPATH" \in DOMAIN e THEN split(e["PYTHONPATH"]) ELSE <<>>

\* C33: the environment of the children has every variable of the caller's
\* with its value, PYTHONPATH apart, and a PYTHONPATH that has the directory of
\* the driver in front, before every entry of the caller's PYTHONPATH, which
\* follow in their order.
C33_RootInFront ==
    pc = "env_built" =>
        LET mine == SearchPath(env.os_environ)
            theirs == SearchPath(env.child)
        IN /\ \A v \in DOMAIN env.os_environ \ {"PYTHONPATH"} :
                 v \in DOMAIN env.child /\ env.child[v] = env.os_environ[v]
           /\ theirs[1] = <<ride_dir>>
           /\ \A k \in DOMAIN mine : theirs[k + 1] = mine[k]

----------------------------------------------------------------------------
\* Properties of the probe routes and the fault schedule

\* the fault schedule stands before its first change of a data-path link
BeforeFirstChange == pc = "fs_toggle" /\ fs.i = 0

\* C34 as stated: when the fault schedule executes its first change, the probe
\* rules of every cloud gateway have been handed to the controller, with RideC
\* and without.
C34_ProbedWithOrWithoutRideC ==
    BeforeFirstChange => su.probed = cloud_gateways

\* C34: when the fault schedule executes its first change of a trial with
\* RideC, the probe rules of every cloud gateway have been handed to
\* install_flow_rules, once each and in the order of cloud_gateways; in a trial
\* without RideC no probe rule has been.
C34_ProbedBeforeFirstChange ==
    BeforeFirstChange =>
        /\ cloud_gateways # <<>>
        /\ su.probed = IF su.with_ride_c THEN cloud_gateways ELSE <<>>

\* the first change of a trial with RideC and two gateways is due
C34_Witness ==
    /\ BeforeFirstChange
    /\ su.with_ride_c
    /\ Len(su.probed) = 2

\* the first change of a trial without RideC is due
C34_WitnessWithoutRideC ==
    /\ BeforeFirstChange
    /\ ~su.with_ride_c
    /\ cloud_gateways # <<>>

----------------------------------------------------------------------------
\* Properties of the probe source ports

\* the rules of a probe batch that lead from the server to the cloud
ForwardProbeRules(batch) == SubSeq(batch.rules, 1, Len(batch.route) - 2)

\* C39: the data paths given to RideC name every cloud gateway once, in the
\* order of cloud_gateways, each with a source port of its own; the forward
\* probe rules installed for a gateway all match the source port its data path
\* names, and the port of a gateway is set by its place in cloud_gateways alone,
\* whichever of the gateways the fault schedule fails first.
C39_ProbePortOfGateway ==
    su.batch.kind = "probe" =>
        LET args == su.data_path_args
            k == su.j - 1
            forward == ForwardProbeRules(su.batch)
        IN /\ Len(args) = Len(cloud_gateways)
           /\ \A a \in DOMAIN args :
                 /\ args[a][1] = cloud_gateways[a]
                 /\ args[a][4] = PROBE_BASE_SRC_PORT + (a - 1)
                 /\ \A b \in DOMAIN args : a # b => args[a][4] # args[b][4]
           /\ args[k][1] = su.batch.gw
           /\ forward # <<>>
           /\ \A r \in DOMAIN forward :
                 /\ forward[r].matches.udp_src = args[k][4]
                 /\ forward[r].matches.udp_dst = ECHO_SERVER_PORT

\* the probe rules of g0 were installed after those of g1, and g0 is the
\* gateway the fault schedule will fail first
C39_Witness ==
    /\ su.batch.kind = "probe"
    /\ cloud_gateways = <<"g1", "g0">>
    /\ su.batch.gw = "g0"
    /\ su.data_path_args[2][4] = PROBE_BASE_SRC_PORT + 1
    /\ ~DataPathLinksRaises
    /\ sorted(data_path_links)[1][1] = "g0"

----------------------------------------------------------------------------
\* Properties of trials without a cloud or without a cloud gateway

\* C36 as stated: whatever the topology and with_cloud, run_experiment is not
\* left by an IndexError: not in data_path_links, not when the list of changes
\* is built, not in the static routes from the cloud gateways.
C36_NoIndexError ==
    pc = "raised" => error # "IndexError"

----------------------------------------------------------------------------
\* Properties of the links the quake fails

\* the positions of run_experiment that follow the failure model of the quake
AfterQuake ==
    /\ pc \in {"fs_sleep", "fs_stamp", "fs_toggle", "quake_test", "fs_wait"}
    /\ fs.quakes >= 1

\* a link joins the two nodes in the emulated network
IsLink(src, dst) == <<src, dst>> \in Range(net.links) \/ <<dst, src>> \in Range(net.links)

\* C37 as stated: from the quake to the return of run_experiment every link of
\* failed_links is down, the first data-path link too when it is one of them.
C37_FailedLinksStayDown ==
    AfterQuake =>
        \A k \in DOMAIN fs.failed_links :
            LET link == fs.failed_links[k]
            IN IsLink(link[1], link[2]) => {link[1], link[2]} \in net.down

----------------------------------------------------------------------------
\* Properties of the change the quake is applied with

\* the data-path links that are down
DataPathsDown ==
    {k \in DOMAIN data_path_links :
        {data_path_links[k][1], data_path_links[k][2]} \in net.down}

\* C38 as stated: whatever the number of data-path links, the change at index
\* 1, after which the quake is applied, fails a data path other than the first
\* one, and two data paths at least are down when the quake starts.
C38_QuakeWithSecondFailure ==
    pc = "quake" =>
        LET first == fs.data_path_changes[1]
            second == fs.data_path_changes[2]
        IN /\ fs.i = 1
           /\ second[3] = "down"
           /\ second[1] # first[1]
           /\ Cardinality(DataPathsDown) >= 2

----------------------------------------------------------------------------
\* topology_manager/sdn_cli.py: the script, run with one command

\* the identifiers a command may name
CliHosts == {"h0", "h1"}

\* most arguments of a command
MaxCliArgs == 3

\* args.command: the command and its arguments
CliCommands ==
    {<<cmd>> \o a :
        cmd \in {"hosts", "path", "mcast", "multicast", "del-flows", "del-groups"},
        a \in UNION {[1..n -> CliHosts] : n \in 0..MaxCliArgs}}

\* topo.get_path(src, dst), as the controller may answer: one switch or two
\* between the two hosts
CliPaths(src, dst) == {<<src, "s0", dst>>, <<src, "s0", "s1", dst>>}

\* build_flow_rules_from_path(path) with the matches and the priority it has
\* when none is given
CliPathRules(path) == build_flow_rules_from_path(path, "None", "None")

\* gflows or flows of build_flow_rules_from_multicast_tree: n rules of a kind
CliTreeRules(kind, n) == [k \in 1..n |-> <<kind, k>>]

InitCli ==
    /\ pc = "sdn_cli"
    /\ error = "None"
    /\ with_cloud = TRUE
    /\ topology_adapter_type = "onos"
    /\ topo_gateways = <<>>
    /\ hosts = <<>>
    /\ switches = <<>>
    /\ cloud_gateways = <<>>
    /\ cloud_switches = <<>>
    /\ links = <<>>
    /\ net = NoNet
    /\ controller = "None"
    /\ nat = "None"
    /\ server_switch = "None"
    /\ server = "None"
    /\ cloud = "None"
    /\ topology_adapter = NoAdapter
    /\ popens = <<>>
    /\ client_iperfs = <<>>
    /\ server_iperfs = <<>>
    /\ conv = NoConv
    /\ su = NoSu
    /\ fs = NoFs
    /\ td = NoTd
    /\ now = 0
    /\ ca = [hosts |-> FALSE, switches |-> FALSE, flows |-> FALSE, groups |-> FALSE]
    /\ result = NoResult
    /\ sc = NoCall
    /\ env = NoEnv
    /\ \E c \in CliCommands : cli = [NoCli EXCEPT !.command = c]

\* a failed install that the script passes over
assert_skipped(ok, p) == p

\* "assert ok" at position p: the script goes on, or AssertionError ends it
assert_(ok, p) == IF ok THEN p ELSE "raised"

\* the call the script has made, with what it returned
CliCall(call, arg, ok) == [call |-> call, arg |-> arg, ok |-> ok]

\* "cmd = args.command[0]" and the branch of the command, up to its first loop
CliMain ==
    /\ pc = "sdn_cli"
    /\ LET cmd == cli.command[1]
           cmd_args == Tail(cli.command)
       IN CASE cmd = "path" ->
                 IF Len(cmd_args) # 2
                 THEN /\ Raise("AssertionError")
                      /\ cli' = cli
                 ELSE \E path \in CliPaths(cmd_args[1], cmd_args[2]) :
                      /\ cli' = [cli EXCEPT
                                   !.path = path,
                                   !.rules = CliPathRules(path)
                                             \o CliPathRules(Reverse(path)),
                                   !.k = 1]
                      /\ pc' = "cli_path_rules"
                      /\ error' = error
            [] cmd \in {"mcast", "multicast"} ->
                 IF Len(cmd_args) < 3
                 THEN /\ Raise("AssertionError")
                      /\ cli' = cli
                 ELSE \E g \in 0..MaxCliRules, f \in 0..MaxCliRules :
                      /\ cli' = [cli EXCEPT !.gflows = CliTreeRules("group", g),
                                            !.flows = CliTreeRules("flow", f),
                                            !.k = 1]
                      /\ pc' = "cli_groups"
                      /\ error' = error
            [] cmd = "del-flows" ->
                 /\ cli' = [cli EXCEPT !.installed =
                               Append(@, CliCall("remove_all_flow_rules", <<>>, TRUE))]
                 /\ pc' = "cli_done"
                 /\ error' = error
            [] cmd = "del-groups" ->
                 /\ cli' = [cli EXCEPT !.installed =
                               Append(@, CliCall("remove_all_groups", <<>>, TRUE))]
                 /\ pc' = "cli_done"
                 /\ error' = error
            [] OTHER ->
                 \* hosts: the hosts are printed
                 /\ cli' = cli
                 /\ pc' = "cli_done"
                 /\ error' = error
    /\ UNCHANGED <<sc, env, config_vars, self_lists, self_nodes, net, topology_adapter,
                   proc_vars, conv, su, fs, td, now, ca, result>>

\* one pass of a loop "for x in xs: assert topo.install(x)" at position p,
\* which position q follows
CliInstall(p, q, call, xs) ==
    /\ IF cli.k > Len(xs)
       THEN /\ pc' = q
            /\ cli' = [cli EXCEPT !.k = 1]
            /\ error' = error
       ELSE \E ok \in BOOLEAN :
            /\ cli' = [cli EXCEPT !.k = @ + 1,
                                  !.installed = Append(@, CliCall(call, xs[cli.k], ok))]
            /\ pc' = assert_(ok, p)
            /\ error' = IF pc' = "raised" THEN "AssertionError" ELSE error
    /\ UNCHANGED <<sc, env, config_vars, self_lists, self_nodes, net, topology_adapter,
                   proc_vars, conv, su, fs, td, now, ca, result>>

\* "for rule in rules: assert topo.install_flow_rule(rule)"
CliInstallPathRule ==
    /\ pc = "cli_path_rules"
    /\ CliInstall("cli_path_rules", "cli_done", "install_flow_rule", cli.rules)

\* "for gf in gflows: assert topo.install_group(gf)"
CliInstallGroup ==
    /\ pc = "cli_groups"
    /\ CliInstall("cli_groups", "cli_flows", "install_group", cli.gflows)

\* "for flow in flows: assert topo.install_flow_rule(flow)"
CliInstallFlow ==
    /\ pc = "cli_flows"
    /\ CliInstall("cli_flows", "cli_done", "install_flow_rule", cli.flows)

NextCli ==
    \/ CliMain
    \/ CliInstallPathRule
    \/ CliInstallGroup
    \/ CliInstallFlow

SpecCli == InitCli /\ [][NextCli]_vars

\* the calls the command is to make, in their order
CliPlanned ==
    IF cli.command[1] = "path"
    THEN [k \in DOMAIN cli.rules |-> <<"install_flow_rule", cli.rules[k]>>]
    ELSE [k \in DOMAIN cli.gflows |-> <<"install_group", cli.gflows[k]>>]
         \o [k \in DOMAIN cli.flows |-> <<"install_flow_rule", cli.flows[k]>>]

\* the command is path or mcast and has passed the test of its arguments
CliInstalling ==
    /\ cli.command[1] \in {"path", "mcast", "multicast"}
    /\ \/ pc \in {"cli_path_rules", "cli_groups", "cli_flows", "cli_done"}
       \/ pc = "raised" /\ cli.installed # <<>>

\* C35: the installs 'path' and 'mcast' have called are the first ones of their
\* plan, in its order and once each: for 'mcast' every group, then every flow
\* rule, so that no group follows a flow rule; for 'path' the rules along the
\* path, then those along the reversed path. An install that returned false is
\* the last call made and has ended the script with AssertionError; a script
\* that came to its end has made every call of the plan.
C35_CliStopsAtFirstFailure ==
    CliInstalling =>
        LET log == cli.installed
        IN /\ Len(log) <= Len(CliPlanned)
           /\ \A k \in DOMAIN log : <<log[k].call, log[k].arg>> = CliPlanned[k]
           /\ \A a, b \in DOMAIN log :
                 a < b => ~(log[a].call = "install_flow_rule" /\ log[b].call = "install_group")
           /\ \A k \in DOMAIN log :
                 ~log[k].ok => k = Len(log) /\ pc = "raised" /\ error = "AssertionError"
           /\ pc = "raised" => ~log[Len(log)].ok
           /\ pc = "cli_done" => Len(log) = Len(CliPlanned)
           /\ pc = "cli_flows" => Len(log) >= Len(cli.gflows)
           /\ cli.command[1] = "path" =>
                 /\ cli.rules = CliPathRules(cli.path) \o CliPathRules(Reverse(cli.path))
                 /\ Len(cli.rules) = 2 * (Len(cli.path) - 2)

\* mcast: the two groups were installed, the first flow rule failed and the
\* second one was never installed
C35_Witness ==
    /\ pc = "raised"
    /\ cli.command[1] = "mcast"
    /\ Len(cli.gflows) = 2
    /\ Len(cli.flows) = 2
    /\ Len(cli.installed) = 3
    /\ ~cli.installed[3].ok

\* path: the third of four rules, the first of the reversed path, failed
C35_WitnessPath ==
    /\ pc = "raised"
    /\ cli.command[1] = "path"
    /\ Len(cli.rules) = 4
    /\ Len(cli.installed) = 3
    /\ ~cli.installed[3].ok

============================================================================
